---- MODULE Spec2Model ----
(***************************************************************************)
(* Model of the eggo cluster operator: ClusterReconciler.Reconcile and the *)
(* functions it calls (src/unnamed/part_001), over a resource store that   *)
(* holds Cluster, Machine, MachineBinding, ConfigMap, Job, Secret and      *)
(* PersistentVolumeClaim records.                                          *)
(*                                                                         *)
(* Store semantics used by the code and kept here:                         *)
(*  - r.Update(cluster) writes the record's metadata (finalizers);         *)
(*    r.Status().Update(cluster) writes its status (the controller is      *)
(*    granted clusters/status, part_001:54);                               *)
(*  - a record carrying a deletion timestamp is removed by the store as    *)
(*    soon as its finalizer list is empty;                                 *)
(*  - the order of a List answer is not specified, so Items[0] of a list   *)
(*    of several records is any of them.                                   *)
(***************************************************************************)
EXTENDS Integers, Sequences, FiniteSets, TLC

VARIABLES
    cluster,    \* Cluster records: exists, deleting, finalizer, spec, status
    mb,         \* MachineBinding records, keyed by the cluster they are named after
    cm,         \* ConfigMap <cluster>-cmd-config exists
    job,        \* Job <cluster>-create-job: whether it exists, its status conditions
    djob,       \* Job <cluster>-delete-job: whether it exists, its status conditions
    secret,     \* the login Secret each cluster declares: whether it exists, Type, data keys
    pvc,        \* the package PersistentVolumeClaim each cluster declares: its phase
    alloc,      \* prepareMachineBinding between its scan and its r.Create: the binding built
    faults,     \* store-call failures the environment may still inject
    last,       \* the last Reconcile invocation: key, step, returned error and result,
                \* store calls issued, and the in-memory status it returned with
    cmd         \* the eggo command line: its options, the file it wrote, what it loaded

vars == <<cluster, mb, cm, job, djob, secret, pvc, alloc, faults, last, cmd>>

Nil == "nil"
NoErr == "ok"

(* ----------------------------- fixtures -------------------------------- *)

\* Number of Machine records in namespace ns1.
NumMachines == 3

\* Number of store calls the environment may fail in one behaviour.
MaxFaults == 1

Clusters == {"a", "b", "c"}

UsageMaster == "master"
UsageWorker == "worker"
UsageEtcd == "etcd"
UsageLoadbalance == "loadbalance"
Usages == {UsageMaster, UsageWorker, UsageEtcd, UsageLoadbalance}

\* The requirement of a cluster for one usage.
RequireOf(spec, usage) ==
    IF usage = UsageMaster THEN spec.MasterRequire
    ELSE IF usage = UsageWorker THEN spec.WorkerRequire
    ELSE IF usage = UsageEtcd THEN spec.EtcdRequire
    ELSE spec.LoadbalanceRequires

Range(f) == {f[i] : i \in DOMAIN f}

\* Machine records. Names are unique within a namespace only: ns2 holds a
\* machine with the name of a machine of ns1 and another UID.
Machines ==
    {[uid |-> i, name |-> i, ns |-> "ns1", labels |-> {}] : i \in 1..NumMachines}
    \cup {[uid |-> 0, name |-> 1, ns |-> "ns2", labels |-> {}]}

MachineNames == {m.name : m \in Machines}

RequireMachineConfig(n) == [Number |-> n, Features |-> {}]

ClusterSpecOf(ns, m, w, e, l) ==
    [Namespace |-> ns,
     MasterRequire |-> RequireMachineConfig(m),
     WorkerRequire |-> RequireMachineConfig(w),
     EtcdRequire |-> RequireMachineConfig(e),
     LoadbalanceRequires |-> RequireMachineConfig(l)]

\* The requirements the clusters declare: a over the pool of ns2, b and c over
\* the pool of ns1. The load balancer of a is to carry the feature "lb", which
\* no machine does.
ClusterSpec(c) ==
    IF c = "a"
    THEN [ClusterSpecOf("ns2", 0, 0, 0, 1) EXCEPT !.LoadbalanceRequires.Features = {"lb"}]
    ELSE IF c = "b" THEN ClusterSpecOf("ns1", 1, 2, 0, 0)
    ELSE ClusterSpecOf("ns1", 0, 0, 1, 0)

SecretTypeBasicAuth == "kubernetes.io/basic-auth"
SecretTypeSSHAuth == "kubernetes.io/ssh-auth"

NoSecret == [exists |-> FALSE, Type |-> Nil, Keys |-> {}]

SecretChoices ==
    {[exists |-> TRUE, Type |-> SecretTypeBasicAuth, Keys |-> {"username", "password"}],
     [exists |-> TRUE, Type |-> SecretTypeSSHAuth, Keys |-> {"ssh-privatekey"}]}

EmptyStatus ==
    [MachineBindingRef |-> Nil,
     MachineLoginSecretRef |-> Nil,
     PackagePersistentVolumeClaimRef |-> Nil,
     ConfigRef |-> Nil,
     JobRef |-> Nil,
     HasCluster |-> FALSE,
     Deleted |-> FALSE,
     JobHistorys |-> <<>>]

RefFields ==
    {"MachineBindingRef", "MachineLoginSecretRef", "PackagePersistentVolumeClaimRef",
     "ConfigRef", "JobRef"}

NoResult == [Requeue |-> FALSE, RequeueAfter |-> 0]
RequeueAfter(s) == [Requeue |-> FALSE, RequeueAfter |-> s]
RequeueNow == [Requeue |-> TRUE, RequeueAfter |-> 0]

\* The command line is not run.
NoCmd == [pc |-> "none"]

NoLast ==
    [c |-> Nil, step |-> "env", err |-> NoErr, res |-> NoResult, calls |-> {},
     mem |-> EmptyStatus]

(* ------------------------- machine allocation -------------------------- *)

\* cluster.IsCreated()
IsCreated(status) == status.HasCluster

\* mb.AddMachine(m, usage)
AddMachine(b, m, usage) ==
    [b EXCEPT !.Usages = @ \cup {[uid |-> m.uid, usage |-> usage]},
              !.labels = @ \cup {m.name}]

BoundUIDs(b) == {u.uid : u \in b.Usages}

NoBinding == [exists |-> FALSE, Usages |-> {}, labels |-> {}, Conditions |-> {}]
EmptyBinding == [exists |-> TRUE, Usages |-> {}, labels |-> {}, Conditions |-> {}]

\* labelSelectMachines: the Machine records of the namespace carrying the features
LabelSelectMachines(ns, config) ==
    {m \in Machines : m.ns = ns /\ config.Features \subseteq m.labels}

\* The orders in which a List call may answer a set of records.
Orderings(S) ==
    {s \in [1..Cardinality(S) -> S] : \A i, j \in 1..Cardinality(S) : i # j => s[i] # s[j]}

\* The MachineBinding records in the store.
LiveBindings(mbs) == {k \in Clusters : mbs[k].exists}

RECURSIVE FirstLabelled(_, _, _, _)
FirstLabelled(mbs, order, i, name) ==
    IF i > Len(order) THEN Nil
    ELSE IF name \in mbs[order[i]].labels THEN order[i]
    ELSE FirstLabelled(mbs, order, i + 1, name)

\* filterMachines, the lookup of one candidate (part_001:304-316): the bindings
\* are listed by the label of the machine's name, and the machine is bound when
\* the first one listed has the machine's UID among its usages. order is the
\* order in which the store lists the bindings.
MachineIsBound(mbs, order, item) ==
    LET first == FirstLabelled(mbs, order, 1, item.name) IN
    /\ first # Nil
    /\ item.uid \in BoundUIDs(mbs[first])

\* filterMachines, the condition under which a candidate is skipped
\* (part_001:310-316): the List call returned no error, listed a binding, and
\* the first one holds the machine's UID. lost are the UIDs of the candidates
\* whose List call fails.
LookupBound(mbs, order, lost, item) ==
    /\ item.uid \notin lost
    /\ MachineIsBound(mbs, order, item)

\* The candidates whose lookup fails while the machines of one usage are chosen.
LostFor(lost, usage) == {x.uid : x \in {y \in lost : y.usage = usage}}

RECURSIVE ScanMachinesStops(_, _, _, _, _, _, _)
\* A scan that stops at the last selection and hands no later candidate on.
ScanMachinesStops(machines, i, requiredNum, mbs, order, lost, acc) ==
    IF i > Len(machines) \/ Len(acc.result) = requiredNum THEN acc
    ELSE IF LookupBound(mbs, order, lost, machines[i])
    THEN ScanMachinesStops(machines, i + 1, requiredNum, mbs, order, lost,
                           [acc EXCEPT !.unused = Append(@, machines[i])])
    ELSE ScanMachinesStops(machines, i + 1, requiredNum, mbs, order, lost,
                           [acc EXCEPT !.result = Append(@, machines[i])])

RECURSIVE ScanMachinesKeeps(_, _, _, _, _, _, _)
\* A scan that hands every candidate on to the next role, the selected too.
ScanMachinesKeeps(machines, i, requiredNum, mbs, order, lost, acc) ==
    IF i > Len(machines) THEN acc
    ELSE LET item == machines[i] IN
         IF Len(acc.result) = requiredNum \/ LookupBound(mbs, order, lost, item)
         THEN ScanMachinesKeeps(machines, i + 1, requiredNum, mbs, order, lost,
                                [acc EXCEPT !.unused = Append(@, item)])
         ELSE ScanMachinesKeeps(machines, i + 1, requiredNum, mbs, order, lost,
                                [acc EXCEPT !.result = Append(@, item),
                                            !.unused = Append(@, item)])

RECURSIVE ScanMachines(_, _, _, _, _, _, _)
\* filterMachines, the loop over the candidates (part_001:297-319)
ScanMachines(machines, i, requiredNum, mbs, order, lost, acc) ==
    IF i > Len(machines) THEN acc
    ELSE LET item == machines[i] IN
         IF Len(acc.result) = requiredNum
         THEN ScanMachines(machines, i + 1, requiredNum, mbs, order, lost,
                           [acc EXCEPT !.unused = Append(@, item)])
         ELSE IF LookupBound(mbs, order, lost, item)
         THEN ScanMachines(machines, i + 1, requiredNum, mbs, order, lost,
                           [acc EXCEPT !.unused = Append(@, item)])
         ELSE ScanMachines(machines, i + 1, requiredNum, mbs, order, lost,
                           [acc EXCEPT !.result = Append(@, item)])

NotEnough == "no enough machine for requires"

\* filterMachines
FilterMachines(config, machines, mbs, order, lost) ==
    IF config.Number <= 0
    THEN [result |-> <<>>, unused |-> machines, err |-> NoErr]
    ELSE IF Len(machines) < config.Number
    THEN [result |-> <<>>, unused |-> <<>>, err |-> NotEnough]
    ELSE LET acc == ScanMachines(machines, 1, config.Number, mbs, order, lost,
                                 [result |-> <<>>, unused |-> <<>>])
         IN  IF Len(acc.result) # config.Number
             THEN [result |-> <<>>, unused |-> <<>>, err |-> NotEnough]
             ELSE [result |-> acc.result, unused |-> acc.unused, err |-> NoErr]

RECURSIVE AddMachines(_, _, _, _)
AddMachines(b, machines, i, usage) ==
    IF i > Len(machines) THEN b
    ELSE AddMachines(AddMachine(b, machines[i], usage), machines, i + 1, usage)

\* A prepareMachineBinding that returns only the error of the first role and
\* builds the binding from whatever the other roles selected.
PrepareMachineBindingPartial(spec, listing, mbs, order, lost) ==
    LET m == FilterMachines(spec.MasterRequire, listing, mbs, order,
                            LostFor(lost, UsageMaster))
        w == FilterMachines(spec.WorkerRequire, m.unused, mbs, order,
                            LostFor(lost, UsageWorker))
        e == FilterMachines(spec.EtcdRequire, w.unused, mbs, order,
                            LostFor(lost, UsageEtcd))
        l == FilterMachines(spec.LoadbalanceRequires, e.unused, mbs, order,
                            LostFor(lost, UsageLoadbalance))
        b1 == AddMachines(EmptyBinding, m.result, 1, UsageMaster)
        b2 == AddMachines(b1, w.result, 1, UsageWorker)
        b3 == AddMachines(b2, e.result, 1, UsageEtcd)
        b4 == AddMachines(b3, l.result, 1, UsageLoadbalance)
    IN  IF m.err # NoErr THEN [err |-> m.err, mb |-> NoBinding]
        ELSE [err |-> NoErr, mb |-> b4]

\* prepareMachineBinding up to its r.Create: the binding built, or the error
PrepareMachineBinding(spec, listing, mbs, order, lost) ==
    LET m == FilterMachines(spec.MasterRequire, listing, mbs, order,
                            LostFor(lost, UsageMaster))
        w == FilterMachines(spec.WorkerRequire, m.unused, mbs, order,
                            LostFor(lost, UsageWorker))
        e == FilterMachines(spec.EtcdRequire, w.unused, mbs, order,
                            LostFor(lost, UsageEtcd))
        l == FilterMachines(spec.LoadbalanceRequires, e.unused, mbs, order,
                            LostFor(lost, UsageLoadbalance))
        b1 == AddMachines(EmptyBinding, m.result, 1, UsageMaster)
        b2 == AddMachines(b1, w.result, 1, UsageWorker)
        b3 == AddMachines(b2, e.result, 1, UsageEtcd)
        b4 == AddMachines(b3, l.result, 1, UsageLoadbalance)
    IN  IF m.err # NoErr THEN [err |-> m.err, mb |-> NoBinding]
        ELSE IF w.err # NoErr THEN [err |-> w.err, mb |-> NoBinding]
        ELSE IF e.err # NoErr THEN [err |-> e.err, mb |-> NoBinding]
        ELSE IF l.err # NoErr THEN [err |-> l.err, mb |-> NoBinding]
        ELSE [err |-> NoErr, mb |-> b4]

(* ------------------------------ jobs ----------------------------------- *)

JobComplete == "Complete"
JobFailed == "Failed"
ConditionTrue == "True"

FailureReasons == {"BackoffLimitExceeded"}

NoJob == [exists |-> FALSE, Conditions |-> <<>>]
NewJob == [exists |-> TRUE, Conditions |-> <<>>]

RECURSIVE JobIsFinishedFrom(_, _)
JobIsFinishedFrom(conds, i) ==
    IF i > Len(conds) THEN [finish |-> FALSE, err |-> NoErr]
    ELSE IF conds[i].Status = ConditionTrue /\ conds[i].Type = JobComplete
    THEN [finish |-> TRUE, err |-> NoErr]
    ELSE IF conds[i].Status = ConditionTrue /\ conds[i].Type = JobFailed
    THEN [finish |-> TRUE, err |-> conds[i].Reason]
    ELSE JobIsFinishedFrom(conds, i + 1)

\* A jobIsFinished that reads the type of a condition and not its status.
JobIsFinishedByType(j) ==
    LET terminal == {i \in 1..Len(j.Conditions) :
                        j.Conditions[i].Type \in {JobComplete, JobFailed}}
        first == CHOOSE i \in terminal : \A k \in terminal : i <= k
    IN  IF terminal = {} THEN [finish |-> FALSE, err |-> NoErr]
        ELSE IF j.Conditions[first].Type = JobComplete
        THEN [finish |-> TRUE, err |-> NoErr]
        ELSE [finish |-> TRUE, err |-> j.Conditions[first].Reason]

\* jobIsFinished; the error of a failed job is modelled by the reason it names
JobIsFinished(j) == JobIsFinishedFrom(j.Conditions, 1)

(* ----------------------- the end of an invocation ---------------------- *)

StatusUpdateFailed == "unable to update cluster status"
UpdateFailed == "unable to update cluster"
NotFound == "not found"
StoreError == "store error"

\* The store calls of an invocation the environment may fail: one at most,
\* while the budget lasts.
FaultChoices(S) == IF faults > 0 THEN S \cup {"none"} ELSE {"none"}

\* Reconcile's deferred r.Update (part_001:84-94), preceded on the creation
\* path by reconcile's r.Status().Update (part_001:821-824): what the store
\* holds and what the invocation returns. mem and fin are the in-memory status
\* and finalizer, persisted the status that a Status().Update already wrote;
\* statusUpdate says whether the path reaches reconcile's Status().Update.
Finish(c, step, mem, fin, persisted, res, err, calls, statusUpdate, fault) ==
    LET cur == cluster[c]
        stIssued == err = NoErr /\ statusUpdate
        stOk == fault # "update-status"
        err1 == IF stIssued /\ ~stOk THEN StatusUpdateFailed ELSE err
        updIssued == err1 = NoErr
        updOk == fault # "update-cluster"
        err2 == IF updIssued /\ ~updOk THEN UpdateFailed ELSE err1
        newStatus == IF stIssued /\ stOk THEN mem ELSE persisted
        newFin == IF updIssued /\ updOk THEN fin ELSE cur.finalizer
        gone == cur.deleting /\ ~newFin
        allCalls == calls \cup (IF stIssued THEN {"update-status"} ELSE {})
                          \cup (IF updIssued THEN {"update-cluster"} ELSE {})
    IN  /\ fault = "none" \/ fault \in allCalls
        /\ faults' = IF fault = "none" THEN faults ELSE faults - 1
        /\ cluster' = [cluster EXCEPT ![c] =
               [@ EXCEPT !.status = newStatus, !.finalizer = newFin, !.exists = ~gone]]
        /\ last' = [c |-> c, step |-> step, err |-> err2, res |-> res,
                    calls |-> allCalls, mem |-> mem]

\* Reconcile runs for one key at a time, and prepareMachineBinding is the one
\* call that is modelled in two steps.
Running(c) == cluster[c].exists /\ ~alloc[c].exists

\* A Reconcile that enters reconcileCreate whether or not the cluster is created.
CreatingAgain(c) ==
    /\ Running(c)
    /\ ~cluster[c].deleting
    /\ cluster[c].finalizer

\* A Reconcile that goes on to reconcileCreate for a record that is being deleted.
CreatingDeleted(c) ==
    /\ Running(c)
    /\ cluster[c].finalizer
    /\ ~IsCreated(cluster[c].status)

\* A Reconcile that goes on to reconcileCreate without the finalizer registered.
CreatingUnregistered(c) ==
    /\ Running(c)
    /\ ~cluster[c].deleting
    /\ ~IsCreated(cluster[c].status)

\* Reconcile reaches r.reconcile and reconcileCreate (part_001:97-121, 813)
Creating(c) ==
    /\ Running(c)
    /\ ~cluster[c].deleting
    /\ cluster[c].finalizer
    /\ ~IsCreated(cluster[c].status)

(* ------------------------------ Reconcile ------------------------------ *)

\* Reconcile: r.Get answers not-found for a record the store removed (part_001:77-82)
ReconcileNotFound(c) ==
    /\ ~cluster[c].exists
    /\ cluster[c].deleting
    /\ ~alloc[c].exists
    /\ last' = [c |-> c, step |-> "not-found", err |-> NoErr, res |-> NoResult,
                calls |-> {}, mem |-> cluster[c].status]
    /\ UNCHANGED <<cmd, cluster, mb, cm, job, djob, secret, pvc, alloc, faults>>

\* Reconcile: register the finalizer (part_001:97-103)
ReconcileAddFinalizer(c) ==
    /\ Running(c)
    /\ ~cluster[c].deleting
    /\ ~cluster[c].finalizer
    /\ \E fault \in FaultChoices({"update-cluster"}) :
           Finish(c, "add-finalizer", cluster[c].status, TRUE, cluster[c].status,
                  NoResult, NoErr, {}, FALSE, fault)
    /\ UNCHANGED <<cmd, mb, cm, job, djob, secret, pvc, alloc>>

\* A step 1 that allocates on a nil reference without the fetch by name.
NeedsAllocationUnfetched(status, found) ==
    status.MachineBindingRef = Nil

\* reconcileCreate step 1 decides to allocate: no reference, and the binding
\* was fetched by its name and not found (part_001:723-731)
NeedsAllocation(status, found) ==
    status.MachineBindingRef = Nil /\ ~found

\* reconcileCreate step 1, the binding exists (part_001:723-744)
ReconcileBindingRef(c) ==
    /\ Creating(c)
    /\ cluster[c].status.MachineBindingRef = Nil
    /\ ~NeedsAllocation(cluster[c].status, mb[c].exists)
    /\ \E fault \in FaultChoices({"update-status", "update-cluster"}) :
           Finish(c, "binding-ref", [cluster[c].status EXCEPT !.MachineBindingRef = c],
                  TRUE, cluster[c].status, NoResult, NoErr, {}, TRUE, fault)
    /\ UNCHANGED <<cmd, mb, cm, job, djob, secret, pvc, alloc>>

\* The lookups of filterMachines that the store may fail in one invocation:
\* none, or that of one candidate for one usage that requires machines.
LookupFaults(spec, pool) ==
    IF faults > 0
    THEN {{}} \cup {{[uid |-> m.uid, usage |-> u]} :
                       m \in pool, u \in {v \in Usages : RequireOf(spec, v).Number > 0}}
    ELSE {{}}

\* reconcileCreate step 1, prepareMachineBinding up to r.Create
\* (part_001:731, 410-472): list the machines, select per role
ReconcileAllocate(c) ==
    /\ Creating(c)
    /\ NeedsAllocation(cluster[c].status, mb[c].exists)
    /\ \E listing \in Orderings(LabelSelectMachines(cluster[c].spec.Namespace,
                                                    cluster[c].spec.MasterRequire)),
          order \in Orderings(LiveBindings(mb)) :
         \E lost \in LookupFaults(cluster[c].spec, Range(listing)) :
           LET r == PrepareMachineBinding(cluster[c].spec, listing, mb, order, lost)
               failed == IF lost = {} THEN {} ELSE {"list-mb"}
           IN
           IF r.err # NoErr
           THEN /\ Finish(c, "allocate", cluster[c].status, TRUE, cluster[c].status,
                          RequeueAfter(2), r.err, failed, TRUE,
                          IF lost = {} THEN "none" ELSE "list-mb")
                /\ alloc' = alloc
           ELSE /\ alloc' = [alloc EXCEPT ![c] = r.mb]
                /\ last' = [c |-> c, step |-> "allocate", err |-> NoErr,
                            res |-> NoResult, calls |-> failed, mem |-> cluster[c].status]
                /\ faults' = faults - Cardinality(lost)
                /\ UNCHANGED cluster
    /\ UNCHANGED <<cmd, mb, cm, job, djob, secret, pvc>>

\* prepareMachineBinding's r.Create and the return of the invocation
\* (part_001:470-478, 732-736)
ReconcileCreateBinding(c) ==
    /\ cluster[c].exists
    /\ alloc[c].exists
    /\ \E fault \in FaultChoices({"create-mb", "update-status", "update-cluster"}) :
        /\ mb' = IF fault # "create-mb" THEN [mb EXCEPT ![c] = alloc[c]] ELSE mb
        /\ Finish(c, "create-binding", cluster[c].status, cluster[c].finalizer,
                  cluster[c].status, RequeueAfter(2),
                  IF fault # "create-mb" THEN NoErr ELSE StoreError,
                  {"create-mb"}, TRUE, fault)
    /\ alloc' = [alloc EXCEPT ![c] = NoBinding]
    /\ UNCHANGED <<cmd, cm, job, djob, secret, pvc>>

(* ---------------------- reconcileCreate, steps 2-7 --------------------- *)

InvalidSecret == "invalid secret"
InvalidSecretType == "secret type invalid"
NotBound == "persistentVolumeClaim is not bound to a PersistentVolume"

\* prepareSecret: the in-memory status and the error it returns
PrepareSecret(status, s, c) ==
    IF ~s.exists THEN [mem |-> status, err |-> NotFound]
    ELSE IF s.Type = SecretTypeSSHAuth
    THEN [mem |-> status,
          err |-> IF "ssh-privatekey" \in s.Keys THEN NoErr ELSE InvalidSecret]
    ELSE IF s.Type # SecretTypeBasicAuth THEN [mem |-> status, err |-> InvalidSecretType]
    ELSE IF "username" \notin s.Keys THEN [mem |-> status, err |-> InvalidSecret]
    ELSE IF "password" \notin s.Keys THEN [mem |-> status, err |-> InvalidSecret]
    ELSE [mem |-> [status EXCEPT !.MachineLoginSecretRef = c], err |-> NoErr]

\* reconcileCreate step 2 (part_001:746-753)
ReconcileSecret(c) ==
    /\ Creating(c)
    /\ cluster[c].status.MachineBindingRef # Nil
    /\ cluster[c].status.MachineLoginSecretRef = Nil
    /\ \E fault \in FaultChoices({"update-status", "update-cluster"}) :
           LET r == PrepareSecret(cluster[c].status, secret[c], c) IN
           Finish(c, "secret", r.mem, TRUE, cluster[c].status,
                  IF r.err # NoErr THEN RequeueAfter(30) ELSE NoResult,
                  r.err, {}, TRUE, fault)
    /\ UNCHANGED <<cmd, mb, cm, job, djob, secret, pvc, alloc>>

\* preparePVCRef
PreparePVCRef(status, phase, c) ==
    IF phase # "Bound" THEN [mem |-> status, err |-> NotBound]
    ELSE [mem |-> [status EXCEPT !.PackagePersistentVolumeClaimRef = c], err |-> NoErr]

\* A step 3 that does not wait for the reference of the login secret.
ReconcilePVCEarly(c) ==
    /\ Creating(c)
    /\ cluster[c].status.MachineBindingRef # Nil
    /\ cluster[c].status.PackagePersistentVolumeClaimRef = Nil
    /\ \E fault \in FaultChoices({"update-status", "update-cluster"}) :
           LET r == PreparePVCRef(cluster[c].status, pvc[c], c) IN
           Finish(c, "pvc", r.mem, TRUE, cluster[c].status,
                  IF r.err # NoErr THEN RequeueAfter(30) ELSE NoResult,
                  r.err, {}, TRUE, fault)
    /\ UNCHANGED <<cmd, mb, cm, job, djob, secret, pvc, alloc>>

\* reconcileCreate step 3 (part_001:755-762)
ReconcilePVC(c) ==
    /\ Creating(c)
    /\ cluster[c].status.MachineBindingRef # Nil
    /\ cluster[c].status.MachineLoginSecretRef # Nil
    /\ cluster[c].status.PackagePersistentVolumeClaimRef = Nil
    /\ \E fault \in FaultChoices({"update-status", "update-cluster"}) :
           LET r == PreparePVCRef(cluster[c].status, pvc[c], c) IN
           Finish(c, "pvc", r.mem, TRUE, cluster[c].status,
                  IF r.err # NoErr THEN RequeueAfter(30) ELSE NoResult,
                  r.err, {}, TRUE, fault)
    /\ UNCHANGED <<cmd, mb, cm, job, djob, secret, pvc, alloc>>

\* prepareEggoConfig: fetch the binding and the secret, render the config,
\* create the ConfigMap or take the reference of the one that exists
PrepareEggoConfig(status, b, s, cmExists, c, fault) ==
    IF ~b.exists \/ ~s.exists
    THEN [mem |-> status, err |-> NotFound, res |-> NoResult, calls |-> {}, cm |-> cmExists]
    ELSE IF ~cmExists
    THEN [mem |-> status,
          err |-> IF fault = "create-cm" THEN StoreError ELSE NoErr,
          res |-> RequeueAfter(2), calls |-> {"create-cm"}, cm |-> fault # "create-cm"]
    ELSE [mem |-> [status EXCEPT !.ConfigRef = c], err |-> NoErr, res |-> NoResult,
          calls |-> {}, cm |-> cmExists]

\* reconcileCreate step 4 (part_001:764-767)
ReconcileConfig(c) ==
    /\ Creating(c)
    /\ cluster[c].status.MachineBindingRef # Nil
    /\ cluster[c].status.MachineLoginSecretRef # Nil
    /\ cluster[c].status.PackagePersistentVolumeClaimRef # Nil
    /\ cluster[c].status.ConfigRef = Nil
    /\ \E fault \in FaultChoices({"create-cm", "update-status", "update-cluster"}) :
           LET r == PrepareEggoConfig(cluster[c].status, mb[c], secret[c], cm[c], c, fault) IN
           /\ cm' = [cm EXCEPT ![c] = r.cm]
           /\ Finish(c, "config", r.mem, TRUE, cluster[c].status, r.res, r.err, r.calls,
                     TRUE, fault)
    /\ UNCHANGED <<cmd, mb, job, djob, secret, pvc, alloc>>

\* A prepareCreateClusterJob that creates the deploy job without the fetch by name.
PrepareCreateClusterJobUnfetched(status, j, s, c, fault) ==
    IF ~s.exists
    THEN [mem |-> status, err |-> NotFound, calls |-> {}, job |-> j]
    ELSE [mem |-> status,
          err |-> IF fault = "create-job" THEN StoreError ELSE NoErr,
          calls |-> {"create-job"},
          job |-> IF fault = "create-job" THEN j ELSE NewJob]

\* prepareCreateClusterJob: take the reference of the deploy job that exists,
\* or create it
PrepareCreateClusterJob(status, j, s, c, fault) ==
    IF j.exists
    THEN [mem |-> [status EXCEPT !.JobRef = c], err |-> NoErr, calls |-> {}, job |-> j]
    ELSE IF ~s.exists
    THEN [mem |-> status, err |-> NotFound, calls |-> {}, job |-> j]
    ELSE [mem |-> status,
          err |-> IF fault = "create-job" THEN StoreError ELSE NoErr,
          calls |-> {"create-job"},
          job |-> IF fault = "create-job" THEN j ELSE NewJob]

\* reconcileCreate step 5 (part_001:769-778)
ReconcileJob(c) ==
    /\ Creating(c)
    /\ cluster[c].status.MachineBindingRef # Nil
    /\ cluster[c].status.MachineLoginSecretRef # Nil
    /\ cluster[c].status.PackagePersistentVolumeClaimRef # Nil
    /\ cluster[c].status.ConfigRef # Nil
    /\ cluster[c].status.JobRef = Nil
    /\ \E fault \in FaultChoices({"create-job", "update-status", "update-cluster"}) :
           LET r == PrepareCreateClusterJob(cluster[c].status, job[c], secret[c], c, fault) IN
           /\ job' = [job EXCEPT ![c] = r.job]
           /\ Finish(c, "job", r.mem, TRUE, cluster[c].status, RequeueAfter(2), r.err,
                     r.calls, TRUE, fault)
    /\ UNCHANGED <<cmd, mb, cm, djob, secret, pvc, alloc>>

JobHistory(name, message) == [Name |-> name, Message |-> message]

\* A checkAndLogClusterJob that also clears the reference of a job it cannot find.
CheckAndLogClusterJobLost(status, j, fault) ==
    IF ~j.exists
    THEN [finish |-> FALSE, err |-> NotFound, mem |-> [status EXCEPT !.JobRef = Nil],
          calls |-> {}, job |-> j]
    ELSE LET f == JobIsFinished(j) IN
         IF ~f.finish \/ f.err = NoErr
         THEN [finish |-> f.finish, err |-> NoErr, mem |-> status, calls |-> {}, job |-> j]
         ELSE [finish |-> TRUE, err |-> f.err,
               mem |-> [status EXCEPT
                          !.JobHistorys = Append(@, JobHistory("create-job", f.err)),
                          !.JobRef = Nil],
               calls |-> {"delete-job"}, job |-> IF fault = "delete-job" THEN j ELSE NoJob]

\* checkAndLogClusterJob
CheckAndLogClusterJob(status, j, fault) ==
    IF ~j.exists
    THEN [finish |-> FALSE, err |-> NotFound, mem |-> status, calls |-> {}, job |-> j]
    ELSE LET f == JobIsFinished(j) IN
         IF ~f.finish
         THEN [finish |-> FALSE, err |-> f.err, mem |-> status, calls |-> {}, job |-> j]
         ELSE IF f.err = NoErr
         THEN [finish |-> TRUE, err |-> NoErr, mem |-> status, calls |-> {}, job |-> j]
         ELSE IF fault = "delete-job"
         THEN [finish |-> TRUE, err |-> f.err, mem |-> status, calls |-> {"delete-job"},
               job |-> j]
         ELSE [finish |-> TRUE, err |-> f.err,
               mem |-> [status EXCEPT
                          !.JobHistorys = Append(@, JobHistory("create-job", f.err)),
                          !.JobRef = Nil],
               calls |-> {"delete-job"}, job |-> NoJob]

\* An updateMachineBindingStatus that does not return the error of its r.Update.
UpdateMachineBindingStatusUnchecked(b, fault) ==
    IF ~b.exists THEN [err |-> NotFound, calls |-> {}, mb |-> b]
    ELSE IF fault = "update-mb" THEN [err |-> NoErr, calls |-> {"update-mb"}, mb |-> b]
    ELSE [err |-> NoErr, calls |-> {"update-mb"},
          mb |-> [b EXCEPT !.Conditions =
                     {[uid |-> u.uid, usage |-> u.usage, message |-> "success"] :
                          u \in b.Usages}]]

\* updateMachineBindingStatus: every usage of the binding gets the condition "success"
UpdateMachineBindingStatus(b, fault) ==
    IF ~b.exists THEN [err |-> NotFound, calls |-> {}, mb |-> b]
    ELSE IF fault = "update-mb" THEN [err |-> StoreError, calls |-> {"update-mb"}, mb |-> b]
    ELSE [err |-> NoErr, calls |-> {"update-mb"},
          mb |-> [b EXCEPT !.Conditions =
                     {[uid |-> u.uid, usage |-> u.usage, message |-> "success"] :
                          u \in b.Usages}]]

\* reconcileCreate steps 6 and 7 (part_001:780-796)
ReconcileMonitor(c) ==
    /\ Creating(c)
    /\ cluster[c].status.MachineBindingRef # Nil
    /\ cluster[c].status.MachineLoginSecretRef # Nil
    /\ cluster[c].status.PackagePersistentVolumeClaimRef # Nil
    /\ cluster[c].status.ConfigRef # Nil
    /\ cluster[c].status.JobRef # Nil
    /\ \E fault \in FaultChoices({"delete-job", "update-mb", "update-status",
                                  "update-cluster"}) :
           LET r == CheckAndLogClusterJob(cluster[c].status, job[c], fault)
               u == UpdateMachineBindingStatus(mb[c], fault)
           IN  /\ job' = [job EXCEPT ![c] = r.job]
               /\ IF ~r.finish \/ r.err # NoErr
                  THEN /\ Finish(c, "monitor", r.mem, TRUE, cluster[c].status,
                                 RequeueAfter(5), r.err, r.calls, TRUE, fault)
                       /\ mb' = mb
                  ELSE IF u.err # NoErr
                  THEN /\ Finish(c, "monitor", r.mem, TRUE, cluster[c].status, NoResult,
                                 u.err, r.calls \cup u.calls, TRUE, fault)
                       /\ mb' = mb
                  ELSE /\ Finish(c, "monitor", [r.mem EXCEPT !.HasCluster = TRUE], TRUE,
                                 cluster[c].status, NoResult, NoErr,
                                 r.calls \cup u.calls, TRUE, fault)
                       /\ mb' = [mb EXCEPT ![c] = u.mb]
    /\ UNCHANGED <<cmd, cm, djob, secret, pvc, alloc>>

\* reconcile on a cluster that is created (part_001:830-833): nothing but the
\* deferred update of the record
ReconcileCreated(c) ==
    /\ Running(c)
    /\ ~cluster[c].deleting
    /\ cluster[c].finalizer
    /\ IsCreated(cluster[c].status)
    /\ \E fault \in FaultChoices({"update-cluster"}) :
           Finish(c, "created", cluster[c].status, TRUE, cluster[c].status, NoResult,
                  NoErr, {}, FALSE, fault)
    /\ UNCHANGED <<cmd, mb, cm, job, djob, secret, pvc, alloc>>

(* --------------------------- reconcileDelete --------------------------- *)

\* A prepareDeleteClusterJob that reports every finished cleanup job as a success.
PrepareDeleteClusterJobAnyEnd(status, dj, s, fault) ==
    IF dj.exists
    THEN [finish |-> JobIsFinished(dj).finish, err |-> NoErr, mem |-> status,
          calls |-> IF JobIsFinished(dj).finish THEN {"get-djob", "delete-djob"}
                    ELSE {"get-djob"},
          djob |-> IF JobIsFinished(dj).finish /\ fault # "delete-djob" THEN NoJob
                   ELSE dj]
    ELSE IF ~s.exists
    THEN [finish |-> FALSE, err |-> NotFound, mem |-> status, calls |-> {"get-djob"},
          djob |-> dj]
    ELSE [finish |-> FALSE,
          err |-> IF fault = "create-djob" THEN StoreError ELSE NoErr,
          mem |-> status, calls |-> {"get-djob", "create-djob"},
          djob |-> IF fault = "create-djob" THEN dj ELSE NewJob]

\* The fetches of the deletion pipeline that the store may fail for a reason
\* other than not-found.
Reads == {"get-job", "get-djob", "get-mb", "get-cm"}

\* prepareDeleteClusterJob: log and delete the cleanup job that finished, wait
\* for the one that runs, or create it
PrepareDeleteClusterJob(status, dj, s, fault) ==
    IF fault = "get-djob"
    THEN [finish |-> FALSE, err |-> StoreError, mem |-> status, calls |-> {"get-djob"},
          djob |-> dj]
    ELSE IF dj.exists
    THEN LET f == JobIsFinished(dj) IN
         IF ~f.finish
         THEN [finish |-> FALSE, err |-> NoErr, mem |-> status, calls |-> {"get-djob"},
               djob |-> dj]
         ELSE IF fault = "delete-djob"
         THEN [finish |-> TRUE, err |-> f.err, mem |-> status,
               calls |-> {"get-djob", "delete-djob"}, djob |-> dj]
         ELSE [finish |-> TRUE, err |-> f.err,
               mem |-> [status EXCEPT !.JobHistorys =
                          Append(@, JobHistory("delete-job",
                                               IF f.err # NoErr THEN f.err ELSE "success"))],
               calls |-> {"get-djob", "delete-djob"}, djob |-> NoJob]
    ELSE IF ~s.exists
    THEN [finish |-> FALSE, err |-> NotFound, mem |-> status, calls |-> {"get-djob"},
          djob |-> dj]
    ELSE [finish |-> FALSE,
          err |-> IF fault = "create-djob" THEN StoreError ELSE NoErr,
          mem |-> status, calls |-> {"get-djob", "create-djob"},
          djob |-> IF fault = "create-djob" THEN dj ELSE NewJob]

\* reconcileDelete: the in-memory status it leaves, its result, the store calls
\* it issues and the records they leave; statusUpdate says whether it reached
\* step 5 and its Status().Update
ReconcileDeleteSteps(status, j, dj, b, cmExists, s, fault) ==
    LET Out(mem, res, calls, j2, dj2, b2, cm2, su) ==
            [mem |-> mem, res |-> res, calls |-> calls, job |-> j2, djob |-> dj2,
             mb |-> b2, cm |-> cm2, statusUpdate |-> su]
    IN
    \* Step 1: delete the running job of the cluster
    IF status.JobRef # Nil /\ fault = "get-job"
    THEN Out(status, RequeueAfter(5), {"get-job"}, j, dj, b, cmExists, FALSE)
    ELSE IF status.JobRef # Nil /\ j.exists
    THEN LET call == IF JobIsFinished(j).finish THEN "delete-job" ELSE "delete-job-grace"
         IN  Out(status, RequeueAfter(5), {"get-job", call},
                 IF fault = call THEN j ELSE NoJob, dj, b, cmExists, FALSE)
    ELSE
    LET s1 == [status EXCEPT !.JobRef = Nil]
        calls1 == IF status.JobRef # Nil THEN {"get-job"} ELSE {}
        p == PrepareDeleteClusterJob(s1, dj, s, fault)
    IN
    \* Step 2: run the job that deletes the cluster
    IF IsCreated(s1) /\ ~p.finish
    THEN Out(p.mem, RequeueAfter(5), calls1 \cup p.calls, j, p.djob, b, cmExists, FALSE)
    ELSE IF IsCreated(s1) /\ p.err # NoErr
    THEN Out(p.mem, RequeueAfter(1), calls1 \cup p.calls, j, p.djob, b, cmExists, FALSE)
    ELSE
    LET s2 == IF IsCreated(s1) THEN [p.mem EXCEPT !.HasCluster = FALSE] ELSE s1
        dj2 == IF IsCreated(s1) THEN p.djob ELSE dj
        calls2 == calls1 \cup (IF IsCreated(s1) THEN p.calls ELSE {})
                         \cup (IF s2.MachineBindingRef # Nil THEN {"get-mb"} ELSE {})
    IN
    \* Step 3: delete the machine binding, unless the fetch answers any error
    IF s2.MachineBindingRef # Nil /\ b.exists /\ fault # "get-mb"
    THEN Out(s2, RequeueNow, calls2 \cup {"delete-mb"}, j, dj2,
             IF fault = "delete-mb" THEN b ELSE NoBinding, cmExists, FALSE)
    ELSE
    LET s3 == [s2 EXCEPT !.MachineBindingRef = Nil]
        calls3 == calls2 \cup (IF s3.ConfigRef # Nil THEN {"get-cm"} ELSE {})
    IN
    \* Step 4: delete the configmap, unless the fetch answers any error
    IF s3.ConfigRef # Nil /\ cmExists /\ fault # "get-cm"
    THEN Out(s3, RequeueNow, calls3 \cup {"delete-cm"}, j, dj2, b,
             fault = "delete-cm", FALSE)
    ELSE
    \* Step 5: reset the references, mark the record deleted, update the status
    Out([s3 EXCEPT !.ConfigRef = Nil, !.MachineBindingRef = Nil,
                   !.PackagePersistentVolumeClaimRef = Nil, !.Deleted = TRUE],
        IF fault = "update-status" THEN RequeueAfter(5) ELSE NoResult,
        calls3 \cup {"update-status"}, j, dj2, b, cmExists, TRUE)

\* A deletion pipeline whose step 5 also deletes the login secret and releases
\* the volume claim.
ReconcileDeleteResets(c) ==
    /\ Running(c)
    /\ cluster[c].deleting
    /\ cluster[c].finalizer
    /\ \E fault \in FaultChoices(Reads \cup
                                 {"delete-job", "delete-job-grace", "delete-djob",
                                  "create-djob", "delete-mb", "delete-cm",
                                  "update-status", "update-cluster"}) :
           LET r == ReconcileDeleteSteps(cluster[c].status, job[c], djob[c], mb[c],
                                         cm[c], secret[c], fault)
               persisted == IF r.statusUpdate /\ fault # "update-status"
                            THEN r.mem ELSE cluster[c].status
           IN  /\ job' = [job EXCEPT ![c] = r.job]
               /\ djob' = [djob EXCEPT ![c] = r.djob]
               /\ mb' = [mb EXCEPT ![c] = r.mb]
               /\ cm' = [cm EXCEPT ![c] = r.cm]
               /\ secret' = IF r.statusUpdate THEN [secret EXCEPT ![c] = NoSecret]
                            ELSE secret
               /\ pvc' = IF r.statusUpdate THEN [pvc EXCEPT ![c] = "Pending"] ELSE pvc
               /\ Finish(c, "delete", r.mem, FALSE, persisted, r.res,
                         NoErr, r.calls, FALSE, fault)
    /\ UNCHANGED <<cmd, alloc>>

\* Reconcile on a record that is being deleted and carries the finalizer
\* (part_001:104-119): reconcileDelete returns no error on any path, so the
\* finalizer is removed in memory and the deferred update writes it
ReconcileDelete(c) ==
    /\ Running(c)
    /\ cluster[c].deleting
    /\ cluster[c].finalizer
    /\ \E fault \in FaultChoices(Reads \cup
                                 {"delete-job", "delete-job-grace", "delete-djob",
                                  "create-djob", "delete-mb", "delete-cm",
                                  "update-status", "update-cluster"}) :
           LET r == ReconcileDeleteSteps(cluster[c].status, job[c], djob[c], mb[c],
                                         cm[c], secret[c], fault)
               persisted == IF r.statusUpdate /\ fault # "update-status"
                            THEN r.mem ELSE cluster[c].status
           IN  /\ job' = [job EXCEPT ![c] = r.job]
               /\ djob' = [djob EXCEPT ![c] = r.djob]
               /\ mb' = [mb EXCEPT ![c] = r.mb]
               /\ cm' = [cm EXCEPT ![c] = r.cm]
               /\ Finish(c, "delete", r.mem, FALSE, persisted, r.res,
                         NoErr, r.calls, FALSE, fault)
    /\ UNCHANGED <<cmd, secret, pvc, alloc>>

(* ---------------------------- environment ------------------------------ *)

\* The operator deletes the Cluster record: the store sets the deletion
\* timestamp, and removes the record at once when no finalizer holds it.
MarkDeleted(c) ==
    /\ cluster[c].exists
    /\ ~cluster[c].deleting
    /\ cluster' = [cluster EXCEPT ![c] =
           [@ EXCEPT !.deleting = TRUE, !.exists = cluster[c].finalizer]]
    /\ last' = NoLast
    /\ UNCHANGED <<cmd, mb, cm, job, djob, secret, pvc, alloc, faults>>

\* The login secret the cluster declares is created.
ProvideSecret(c) ==
    /\ cluster[c].exists
    /\ ~secret[c].exists
    /\ \E s \in SecretChoices : secret' = [secret EXCEPT ![c] = s]
    /\ last' = NoLast
    /\ UNCHANGED <<cmd, cluster, mb, cm, job, djob, pvc, alloc, faults>>

\* The package volume claim the cluster declares is bound.
BindPVC(c) ==
    /\ cluster[c].exists
    /\ pvc[c] = "Pending"
    /\ pvc' = [pvc EXCEPT ![c] = "Bound"]
    /\ last' = NoLast
    /\ UNCHANGED <<cmd, cluster, mb, cm, job, djob, secret, alloc, faults>>

Finished(type, reason) == [Type |-> type, Status |-> ConditionTrue, Reason |-> reason]

\* The job controller records the end of a running deploy job.
JobEnds(c) ==
    /\ job[c].exists
    /\ ~JobIsFinished(job[c]).finish
    /\ \E cond \in {Finished(JobComplete, "")}
                   \cup {Finished(JobFailed, r) : r \in FailureReasons} :
           job' = [job EXCEPT ![c].Conditions = Append(@, cond)]
    /\ last' = NoLast
    /\ UNCHANGED <<cmd, cluster, mb, cm, djob, secret, pvc, alloc, faults>>

\* The job controller records the end of a running cleanup job.
DeleteJobEnds(c) ==
    /\ djob[c].exists
    /\ ~JobIsFinished(djob[c]).finish
    /\ \E cond \in {Finished(JobComplete, "")}
                   \cup {Finished(JobFailed, r) : r \in FailureReasons} :
           djob' = [djob EXCEPT ![c].Conditions = Append(@, cond)]
    /\ last' = NoLast
    /\ UNCHANGED <<cmd, cluster, mb, cm, job, secret, pvc, alloc, faults>>

\* The conditions the job controller writes to the status of a job: a terminal
\* one, or one that says the job is or is not suspended, each true or false.
JobSuspended == "Suspended"
ConditionFalse == "False"

MaxConditions == 3

JobConditions ==
    {[Type |-> t, Status |-> st, Reason |-> ""] :
        t \in {JobComplete, JobSuspended}, st \in {ConditionTrue, ConditionFalse}}
    \cup {[Type |-> JobFailed, Status |-> st, Reason |-> r] :
              st \in {ConditionTrue, ConditionFalse}, r \in FailureReasons}

\* The job controller adds a condition to a deploy job that has not ended.
JobCondition(c) ==
    /\ job[c].exists
    /\ ~JobIsFinished(job[c]).finish
    /\ Len(job[c].Conditions) < MaxConditions
    /\ \E cond \in JobConditions :
           job' = [job EXCEPT ![c].Conditions = Append(@, cond)]
    /\ last' = NoLast
    /\ UNCHANGED <<cmd, cluster, mb, cm, djob, secret, pvc, alloc, faults>>

\* The deploy job runs to its end and the job controller marks it Complete.
JobCompletes(c) ==
    /\ job[c].exists
    /\ ~JobIsFinished(job[c]).finish
    /\ job' = [job EXCEPT ![c].Conditions = Append(@, Finished(JobComplete, ""))]
    /\ last' = NoLast
    /\ UNCHANGED <<cmd, cluster, mb, cm, djob, secret, pvc, alloc, faults>>

(* --------------------------- specifications ---------------------------- *)

InitStore(declared, budget) ==
    /\ cluster = [c \in Clusters |->
           [exists |-> c \in declared, deleting |-> FALSE, finalizer |-> FALSE,
            spec |-> ClusterSpec(c), status |-> EmptyStatus]]
    /\ mb = [c \in Clusters |-> NoBinding]
    /\ cm = [c \in Clusters |-> FALSE]
    /\ job = [c \in Clusters |-> NoJob]
    /\ djob = [c \in Clusters |-> NoJob]
    /\ secret = [c \in Clusters |-> NoSecret]
    /\ pvc = [c \in Clusters |-> "Pending"]
    /\ alloc = [c \in Clusters |-> NoBinding]
    /\ faults = budget
    /\ last = NoLast

\* The reconciler alone: the command line is not run.
InitWith(declared, budget) ==
    /\ InitStore(declared, budget)
    /\ cmd = NoCmd

\* One cluster followed through its whole life, on a store that may fail calls.
Init == InitWith({"b"}, MaxFaults)

Reconcile(c) ==
    \/ ReconcileNotFound(c)
    \/ ReconcileAddFinalizer(c)
    \/ ReconcileBindingRef(c)
    \/ ReconcileAllocate(c)
    \/ ReconcileCreateBinding(c)
    \/ ReconcileSecret(c)
    \/ ReconcilePVC(c)
    \/ ReconcileConfig(c)
    \/ ReconcileJob(c)
    \/ ReconcileMonitor(c)
    \/ ReconcileCreated(c)
    \/ ReconcileDelete(c)

Environment(c) ==
    \/ MarkDeleted(c)
    \/ ProvideSecret(c)
    \/ BindPVC(c)
    \/ JobEnds(c)
    \/ DeleteJobEnds(c)

Next == \E c \in Clusters : Reconcile(c) \/ Environment(c)

Spec == Init /\ [][Next]_vars

\* The same, each cluster reconciled again and again and its jobs running to
\* their end.
FairNext ==
    \A c \in Clusters :
        /\ WF_vars(Reconcile(c))
        /\ WF_vars(JobEnds(c))
        /\ WF_vars(DeleteJobEnds(c))

FairSpec == Spec /\ FairNext

\* Number of store calls the environment may fail while a cluster is followed
\* through its teardown.
TeardownFaults == 5

\* One cluster followed through its whole life on a store that fails calls
\* often enough for the deletion pipeline to be entered again and again.
InitTeardown == InitWith({"b"}, TeardownFaults)

SpecTeardown == InitTeardown /\ [][Next]_vars

\* Three clusters over two machine pools, followed through allocation on a
\* store that fails no call.
InitAlloc == InitWith(Clusters, 0)

NextAlloc ==
    \E c \in Clusters :
        \/ ReconcileAddFinalizer(c)
        \/ ReconcileBindingRef(c)
        \/ ReconcileAllocate(c)
        \/ ReconcileCreateBinding(c)

SpecAlloc == InitAlloc /\ [][NextAlloc]_vars

\* One cluster followed through its creation, on a store that fails no call,
\* its deploy job going through every sequence of conditions.
InitCreate == InitWith({"b"}, 0)

NextCreate ==
    \E c \in Clusters :
        \/ ReconcileAddFinalizer(c)
        \/ ReconcileBindingRef(c)
        \/ ReconcileAllocate(c)
        \/ ReconcileCreateBinding(c)
        \/ ReconcileSecret(c)
        \/ ReconcilePVC(c)
        \/ ReconcileConfig(c)
        \/ ReconcileJob(c)
        \/ ReconcileMonitor(c)
        \/ ReconcileCreated(c)
        \/ ProvideSecret(c)
        \/ BindPVC(c)
        \/ JobCondition(c)

SpecCreate == InitCreate /\ [][NextCreate]_vars

\* reconcileCreate for cluster c, whatever its step.
ReconcileCreation(c) ==
    \/ ReconcileAddFinalizer(c)
    \/ ReconcileBindingRef(c)
    \/ ReconcileAllocate(c)
    \/ ReconcileCreateBinding(c)
    \/ ReconcileSecret(c)
    \/ ReconcilePVC(c)
    \/ ReconcileConfig(c)
    \/ ReconcileJob(c)
    \/ ReconcileMonitor(c)
    \/ ReconcileCreated(c)

\* A cluster with a pool that holds the machines it requires, on a store that
\* fails no call: it is reconciled again and again, its secret is provided,
\* its volume claim gets bound, and its deploy job completes.
Provisioned == {"b"}

InitLive == InitWith(Provisioned, 0)

NextLive ==
    \E c \in Provisioned :
        \/ ReconcileCreation(c)
        \/ ProvideSecret(c)
        \/ BindPVC(c)
        \/ JobCompletes(c)

FairLive ==
    \A c \in Provisioned :
        /\ WF_vars(ReconcileCreation(c))
        /\ WF_vars(ProvideSecret(c))
        /\ WF_vars(BindPVC(c))
        /\ WF_vars(JobCompletes(c))

SpecLive == InitLive /\ [][NextLive]_vars /\ FairLive

\* Two clusters over one machine pool, followed through allocation.
InitRace == InitWith({"b", "c"}, 0)

SpecRace == InitRace /\ [][NextAlloc]_vars

\* Two clusters over one machine pool, followed through the steps that wait
\* for a resource (machines, the login secret, the volume claim), either of
\* them deleted at any time and its machines released.
NextHeal ==
    \E c \in Clusters :
        \/ ReconcileAddFinalizer(c)
        \/ ReconcileBindingRef(c)
        \/ ReconcileAllocate(c)
        \/ ReconcileCreateBinding(c)
        \/ ReconcileSecret(c)
        \/ ReconcilePVC(c)
        \/ ReconcileDelete(c)
        \/ ReconcileNotFound(c)
        \/ MarkDeleted(c)
        \/ ProvideSecret(c)
        \/ BindPVC(c)

SpecHeal == InitRace /\ [][NextHeal]_vars


(* ------------------------------ properties ----------------------------- *)

\* The machines two committed bindings have in common.
SharedMachines(k1, k2) == BoundUIDs(mb[k1]) \cap BoundUIDs(mb[k2])

\* C1: whatever the interleaving of the Reconcile invocations of different
\* clusters, no machine is bound in the Binding Records of two clusters.
C1_NoDoubleAllocation ==
    \A k1, k2 \in Clusters :
        (k1 # k2 /\ mb[k1].exists /\ mb[k2].exists) => SharedMachines(k1, k2) = {}

\* C2: the finalizer leaves a Cluster Record only in a step that leaves
\* status.Deleted true.
C2_FinalizerRemovedOnlyWhenDeleted ==
    [][\A c \in Clusters :
          (cluster[c].finalizer /\ ~cluster'[c].finalizer)
              => cluster'[c].status.Deleted]_vars

\* The monitor step of cluster c saw its deploy job failed and deleted it.
FailedJobDeleted(c) ==
    /\ last'.c = c
    /\ last'.step = "monitor"
    /\ job[c].exists
    /\ JobIsFinished(job[c]).err # NoErr
    /\ ~job'[c].exists

\* C3: when the monitor step sees the deploy job failed, the stored status
\* afterwards has one more history entry, carrying the failure message, and no
\* JobRef, and the job is deleted.
C3_FailedJobLoggedAndCleared ==
    [][\A c \in Clusters :
          FailedJobDeleted(c) =>
              /\ cluster'[c].status.JobRef = Nil
              /\ Len(cluster'[c].status.JobHistorys)
                     = Len(cluster[c].status.JobHistorys) + 1
              /\ cluster'[c].status.JobHistorys[Len(cluster'[c].status.JobHistorys)].Message
                     = JobIsFinished(job[c]).err]_vars

\* The calls that create a job.
JobCreations == {"create-job", "create-djob"}

\* C4: a cluster never has a deploy job and a cleanup job at once, and a job is
\* created for a cluster only when it has neither.
C4_AtMostOneJob ==
    [][\A c \in Clusters :
          /\ ~(job'[c].exists /\ djob'[c].exists)
          /\ (last'.c = c /\ last'.calls \cap JobCreations # {})
                 => (~job[c].exists /\ ~djob[c].exists)]_vars

\* C4 happens: the deletion of a cluster that had its deploy job created the
\* cleanup job, the deploy job gone.
C4_CleanupJobAlone ==
    \E c \in Clusters :
        /\ last.c = c
        /\ "create-djob" \in last.calls
        /\ djob[c].exists
        /\ ~job[c].exists
        /\ cluster[c].status.JobRef # Nil

\* C5: in the deletion of a created cluster the cleanup job is created only
\* once the deploy job is gone, HasCluster falls only once the cleanup job
\* was seen, and the record is not released while HasCluster is true.
C5_TeardownOrder ==
    [][\A c \in Clusters :
          /\ (~djob[c].exists /\ djob'[c].exists) => ~job[c].exists
          /\ (cluster[c].status.HasCluster /\ ~cluster'[c].status.HasCluster)
                 => djob[c].exists
          /\ (cluster[c].exists /\ ~cluster'[c].exists)
                 => ~cluster'[c].status.HasCluster]_vars

\* The steps of the creation path.
CreationSteps ==
    {"binding-ref", "allocate", "create-binding", "secret", "pvc", "config", "job",
     "monitor", "created"}

\* C6 as stated: a reference that is set is still set in the status a step of
\* the creation path leaves in memory.
C6_CreationNeverResetsRef ==
    [][\A c \in Clusters :
          (last'.c = c /\ last'.step \in CreationSteps) =>
              \A f \in RefFields :
                  cluster[c].status[f] # Nil => last'.mem[f] # Nil]_vars

\* C6, amended: outside the deletion pipeline a Reconcile invocation resets no
\* reference but JobRef, and JobRef only in the monitor step that saw the
\* deploy job failed and deleted it.
C6_CreationResetsOnlyFailedJobRef ==
    [][\A c \in Clusters :
          (last'.c = c /\ last'.step # "delete") =>
              \A f \in RefFields :
                  cluster[c].status[f] # Nil =>
                      \/ last'.mem[f] # Nil
                      \/ f = "JobRef" /\ FailedJobDeleted(c)]_vars

\* C6 happens: a monitor step cleared the JobRef of a failed job, the other
\* references staying set.
C6_FailedJobRefCleared ==
    \E c \in Clusters :
        /\ last.c = c
        /\ last.step = "monitor"
        /\ last.mem.JobRef = Nil
        /\ \A f \in RefFields \ {"JobRef"} : last.mem[f] # Nil

\* Cluster c is at the fixed point: finalizer registered, created, not deleted.
FixedPoint(c) ==
    /\ cluster[c].exists
    /\ cluster[c].finalizer
    /\ ~cluster[c].deleting
    /\ cluster[c].status.HasCluster

\* The records of the store.
store == <<cluster, mb, cm, job, djob, secret, pvc>>

\* C7 as stated: a Reconcile invocation at the fixed point issues no mutating
\* call to the store.
C7_FixedPointNoCall ==
    [][\A c \in Clusters :
          (FixedPoint(c) /\ last'.c = c) => last'.calls = {}]_vars

\* C7, amended: a Reconcile invocation at the fixed point creates and deletes
\* nothing and changes no record; its one call is the update of the Cluster
\* Record.
C7_FixedPointOnlyUpdatesRecord ==
    [][\A c \in Clusters :
          (FixedPoint(c) /\ last'.c = c) =>
              /\ last'.calls = {"update-cluster"}
              /\ store' = store]_vars

\* C7 happens: a Reconcile invocation ran at the fixed point.
C7_ReconciledAtFixedPoint ==
    \E c \in Clusters :
        /\ FixedPoint(c)
        /\ last.c = c
        /\ last.step = "created"
        /\ "update-cluster" \in last.calls

\* C8: machines are selected, and a Binding Record is created, only for a
\* cluster whose BindingRef is nil and whose Binding Record is not in the store.
C8_AllocateOnlyWithoutBinding ==
    [][\A c \in Clusters :
          (\/ ~alloc[c].exists /\ alloc'[c].exists
           \/ last'.c = c /\ last'.step = "allocate"
           \/ last'.c = c /\ "create-mb" \in last'.calls)
              => (cluster[c].status.MachineBindingRef = Nil /\ ~mb[c].exists)]_vars

\* C8 happens: a cluster that has its BindingRef went through a later step of
\* the creation path, its Binding Record as it was created.
C8_BoundClusterReconciled ==
    \E c \in Clusters :
        /\ last.c = c
        /\ last.step \in {"secret", "pvc", "config", "job"}
        /\ cluster[c].status.MachineBindingRef # Nil
        /\ mb[c].exists
        /\ ~alloc[c].exists

\* The machines bound in the Binding Records of the store.
BoundInStore == UNION {BoundUIDs(mb[k]) : k \in Clusters}

\* No allocation is between its selection and its create.
Sequential == \A k \in Clusters : ~alloc[k].exists

\* C9: when the allocations run one after the other, a selection takes no
\* machine that is bound in a Binding Record of the store.
C9_SelectsNoBoundMachine ==
    [][\A c \in Clusters :
          (Sequential /\ alloc'[c].exists)
              => BoundUIDs(alloc'[c]) \cap BoundInStore = {}]_vars

\* The machines of the pool of cluster c that a lookup of the Binding Records
\* can report as not bound.
Eligible(c) ==
    {m \in LabelSelectMachines(cluster[c].spec.Namespace, cluster[c].spec.MasterRequire) :
        \/ \A k \in Clusters : mb[k].exists => m.name \notin mb[k].labels
        \/ \E k \in Clusters : /\ mb[k].exists
                               /\ m.name \in mb[k].labels
                               /\ m.uid \notin BoundUIDs(mb[k])}

\* The counts the roles require, in the order of selection.
Required(c) ==
    <<cluster[c].spec.MasterRequire.Number, cluster[c].spec.WorkerRequire.Number,
      cluster[c].spec.EtcdRequire.Number, cluster[c].spec.LoadbalanceRequires.Number>>

RECURSIVE Taken(_, _)
\* What the roles before role i take when each of them is satisfied.
Taken(req, i) ==
    IF i <= 1 THEN 0
    ELSE Taken(req, i - 1) + (IF req[i - 1] > 0 THEN req[i - 1] ELSE 0)

\* Some role of cluster c finds fewer eligible machines than it requires.
RoleShort(c) ==
    \E i \in 1..4 :
        /\ Required(c)[i] > 0
        /\ Cardinality(Eligible(c)) - Taken(Required(c), i) < Required(c)[i]

\* C10: when a role finds fewer eligible machines than it requires, the
\* allocation returns the error and neither selects nor creates a Binding
\* Record, also when the roles before it were satisfied.
C10_ShortRoleFailsAllocation ==
    [][\A c \in Clusters :
          (last'.c = c /\ last'.step = "allocate" /\ RoleShort(c)) =>
              /\ last'.err = NotEnough
              /\ ~alloc'[c].exists
              /\ mb' = mb]_vars

\* C10 happens: an allocation failed on a later role, its first role satisfied.
C10_LaterRoleShort ==
    \E c \in Clusters :
        /\ last.c = c
        /\ last.step = "allocate"
        /\ last.err = NotEnough
        /\ Required(c)[1] > 0
        /\ Cardinality(Eligible(c)) >= Required(c)[1]
        /\ RoleShort(c)
        /\ ~mb[c].exists
        /\ ~alloc[c].exists


\* The machines of the pool of cluster c that no Binding Record of the store binds.
Unbound(c) ==
    {m \in LabelSelectMachines(cluster[c].spec.Namespace, cluster[c].spec.MasterRequire) :
        m.uid \notin BoundInStore}

\* The entries of binding b that carry the usage.
UsageEntries(b, usage) == {u \in b.Usages : u.usage = usage}

\* Cluster c requires masters and workers only, and as many as its pool has
\* unbound machines.
MastersAndWorkersOnly(c) ==
    /\ Required(c)[1] > 0
    /\ Required(c)[2] > 0
    /\ Required(c)[3] <= 0
    /\ Required(c)[4] <= 0
    /\ Cardinality(Unbound(c)) = Required(c)[1] + Required(c)[2]

\* Binding b has one entry per machine: m masters, w workers, nothing else.
BindsExactly(b, m, w) ==
    /\ b.exists
    /\ Cardinality(b.Usages) = m + w
    /\ Cardinality(BoundUIDs(b)) = m + w
    /\ Cardinality(UsageEntries(b, UsageMaster)) = m
    /\ Cardinality(UsageEntries(b, UsageWorker)) = w

\* C11: with m > 0 masters and w > 0 workers required, no other role, and
\* exactly m + w unbound machines in the pool, the selection succeeds with m
\* masters and w workers, the create commits that binding, and a role that
\* requires nothing selects nothing and hands the whole pool on.
C11_ExactPoolIsAllocated ==
    [][\A c \in Clusters :
          /\ (last'.c = c /\ last'.step = "allocate" /\ MastersAndWorkersOnly(c)) =>
                 /\ last'.err = NoErr
                 /\ BindsExactly(alloc'[c], Required(c)[1], Required(c)[2])
                 /\ \A listing \in Orderings(Unbound(c)), order \in Orderings(LiveBindings(mb)) :
                        FilterMachines(cluster[c].spec.EtcdRequire, listing, mb, order, {})
                            = [result |-> <<>>, unused |-> listing, err |-> NoErr]
          /\ (last'.c = c /\ last'.step = "create-binding") =>
                 (last'.err = NoErr /\ mb'[c] = alloc[c])]_vars

\* C11 happens: a binding of m masters and w workers was committed for a
\* cluster that requires no other role.
C11_MastersAndWorkersBound ==
    \E c \in Clusters :
        /\ last.c = c
        /\ last.step = "create-binding"
        /\ Required(c)[1] > 0 /\ Required(c)[2] > 0
        /\ Required(c)[3] <= 0 /\ Required(c)[4] <= 0
        /\ BindsExactly(mb[c], Required(c)[1], Required(c)[2])

\* The pool of cluster c as the store lists it, in every order.
Listings(c) ==
    Orderings(LabelSelectMachines(cluster[c].spec.Namespace, cluster[c].spec.MasterRequire))

\* C12: the selection is a function of the machine listing, the Binding
\* Records and the requirements: two runs of it over the same listing and the
\* same store give the same result.
C12_SelectionIsDetermined ==
    \A c \in Clusters :
        \A listing \in Listings(c) :
            \A o1, o2 \in Orderings(LiveBindings(mb)) :
                PrepareMachineBinding(cluster[c].spec, listing, mb, o1, {})
                    = PrepareMachineBinding(cluster[c].spec, listing, mb, o2, {})

\* The conditions of a type that are true.
TrueConditions(j, type) ==
    {i \in 1..Len(j.Conditions) :
        j.Conditions[i].Type = type /\ j.Conditions[i].Status = ConditionTrue}

\* C13: jobIsFinished answers (true, no error) for a job with a true Complete
\* condition, (true, the error naming the reason) for a job with a true Failed
\* condition, (false, no error) for a job with neither, and never an error
\* with false.
C13_JobIsFinished ==
    \A c \in Clusters :
        job[c].exists =>
            LET r == JobIsFinished(job[c]) IN
            /\ TrueConditions(job[c], JobComplete) # {}
                   => r = [finish |-> TRUE, err |-> NoErr]
            /\ TrueConditions(job[c], JobFailed) # {}
                   => /\ r.finish
                      /\ r.err # NoErr
                      /\ \E i \in TrueConditions(job[c], JobFailed) :
                             r.err = job[c].Conditions[i].Reason
            /\ (TrueConditions(job[c], JobComplete) = {}
                    /\ TrueConditions(job[c], JobFailed) = {})
                   => r = [finish |-> FALSE, err |-> NoErr]
            /\ r.err # NoErr => r.finish

\* C13 happens: a job that ended Failed after conditions that end nothing.
C13_FailedAfterOtherConditions ==
    \E c \in Clusters :
        /\ job[c].exists
        /\ Len(job[c].Conditions) > 1
        /\ TrueConditions(job[c], JobFailed) # {}
        /\ JobIsFinished(job[c]).err \in FailureReasons

\* Secret s exists and carries the data its type requires.
ValidSecret(s) ==
    /\ s.exists
    /\ \/ s.Type = SecretTypeBasicAuth /\ {"username", "password"} \subseteq s.Keys
       \/ s.Type = SecretTypeSSHAuth /\ "ssh-privatekey" \in s.Keys

\* C14: the secret step of a cluster whose login secret is valid, of either
\* type, returns no error and with MachineLoginSecretRef set.
C14_ValidSecretIsReferenced ==
    [][\A c \in Clusters :
          (last'.c = c /\ last'.step = "secret" /\ ValidSecret(secret[c])) =>
              /\ last'.err = NoErr
              /\ last'.mem.MachineLoginSecretRef # Nil]_vars

\* C15: the secret step of a cluster whose login secret is not in the store
\* returns no error, asks to be run again after 30 seconds, and leaves
\* MachineLoginSecretRef nil.
C15_MissingSecretIsAwaited ==
    [][\A c \in Clusters :
          (last'.c = c /\ last'.step = "secret" /\ ~secret[c].exists) =>
              /\ last'.err = NoErr
              /\ last'.res = RequeueAfter(30)
              /\ last'.mem.MachineLoginSecretRef = Nil
              /\ cluster'[c].status.MachineLoginSecretRef = Nil]_vars

\* The history of status ends with an entry carrying the message.
LastHistoryIs(status, message) ==
    /\ Len(status.JobHistorys) > 0
    /\ status.JobHistorys[Len(status.JobHistorys)].Message = message

\* C16: the monitor step that sees the deploy job Complete leaves a stored
\* status with HasCluster true and one more history entry, saying "success".
C16_SuccessIsLogged ==
    [][\A c \in Clusters :
          (/\ last'.c = c
           /\ last'.step = "monitor"
           /\ last'.err = NoErr
           /\ job[c].exists
           /\ JobIsFinished(job[c]) = [finish |-> TRUE, err |-> NoErr]) =>
              /\ cluster'[c].status.HasCluster
              /\ Len(cluster'[c].status.JobHistorys)
                     = Len(cluster[c].status.JobHistorys) + 1
              /\ LastHistoryIs(cluster'[c].status, "success")]_vars

\* C17: a cluster that is not deleted, with enough unbound machines, a valid
\* secret of either type, a bound volume claim and a deploy job that
\* completes, is eventually created.
C17_EventuallyCreated ==
    \A c \in Provisioned : <>(cluster[c].status.HasCluster)

\* The teardown of cluster c is over: Deleted is true and the finalizer is gone.
TornDown(c) == cluster[c].status.Deleted /\ ~cluster[c].finalizer

\* The teardown of cluster c is excused: its cleanup job failed, or a call to
\* the store failed.
Excused(c) == TrueConditions(djob[c], JobFailed) # {} \/ faults < MaxFaults

\* C18: a cluster that is marked for deletion, in whatever state of its
\* creation, is eventually torn down, when no store call fails and its
\* cleanup job does not fail.
C18_EventuallyTornDown ==
    \A c \in Clusters :
        (cluster[c].exists /\ cluster[c].deleting) ~> (TornDown(c) \/ Excused(c))

\* The store calls of the creation path.
CreationCalls == {"create-mb", "create-cm", "create-job", "update-mb"}

\* C19: a Reconcile invocation that starts on a record marked for deletion
\* runs the deletion branch only: it selects no machine, issues no call of the
\* creation path and sets no reference.
C19_DeletionPreemptsCreation ==
    [][\A c \in Clusters :
          (cluster[c].deleting /\ ~alloc[c].exists /\ last'.c = c) =>
              /\ last'.step \in {"delete", "not-found"}
              /\ last'.calls \cap CreationCalls = {}
              /\ ~alloc'[c].exists
              /\ \A f \in RefFields :
                     cluster[c].status[f] = Nil => last'.mem[f] = Nil]_vars

\* C19 happens: the deletion branch ran for a cluster whose creation had got
\* as far as its binding and no further.
C19_DeletedHalfCreated ==
    \E c \in Clusters :
        /\ last.c = c
        /\ last.step = "delete"
        /\ cluster[c].deleting
        /\ cluster[c].status.MachineBindingRef # Nil
        /\ cluster[c].status.MachineLoginSecretRef = Nil
        /\ ~cluster[c].status.HasCluster

(* ------------------------ the deploy config file ------------------------ *)

\* Longest IP list given to one template option.
MaxIPs == 2

\* Addresses given on the command line; the first two are also template defaults.
IPs == {"192.168.0.1", "192.168.0.2"}

IPLists == UNION {[1..n -> IPs] : n \in 0..MaxIPs}

\* One list option of the command line: left out (a nil slice) or given.
NilList == [set |-> FALSE, ips |-> <<>>]

OptionLists == {NilList} \cup {[set |-> TRUE, ips |-> l] : l \in IPLists}

\* opts.masters, opts.nodes, opts.etcds, opts.loadbalancer
Options ==
    [masters : OptionLists, nodes : OptionLists,
     etcds : OptionLists, loadbalancer : OptionLists]

\* fmt.Sprintf("<prefix>%d", i) and "<prefix>" + strconv.Itoa(i)
HostName(prefix, i) == prefix \o ToString(i)

\* api.Packages and cmd.Package: name, type (repo, pkg, binary), destination
Pkg(name, type, dst) == [Name |-> name, Type |-> type, Dst |-> dst]

RepoPackages(names) == [i \in 1..Len(names) |-> Pkg(names[i], "repo", "")]
PkgPackages(names) == [i \in 1..Len(names) |-> Pkg(names[i], "pkg", "")]
TcpPorts(ports) == [i \in 1..Len(ports) |-> [Port |-> ports[i], Protocol |-> "tcp"]]

masterPackages ==
    RepoPackages(<<"kubernetes-client", "kubernetes-master", "kubernetes-kubeadm",
                   "coredns", "tar">>)

masterExports ==
    TcpPorts(<<6443, 10251, 10252, 53>>)
        \o <<[Port |-> 53, Protocol |-> "udp"], [Port |-> 9153, Protocol |-> "tcp"]>>

nodePackages ==
    RepoPackages(<<"docker-engine", "iSulad", "kubernetes-client", "kubernetes-node",
                   "kubernetes-kubelet", "tar">>)

nodeExports == TcpPorts(<<10250, 10256>>)

etcdPackages == RepoPackages(<<"etcd", "tar">>)

etcdExports == TcpPorts(<<2379, 2380, 2381>>)

loadbalancePackages == RepoPackages(<<"nginx", "tar">>)

\* The keys of deployConfig.Packages.
PackageKeys == {"master", "node", "etcd", "loadbalance"}

NoPackages == [k \in PackageKeys |-> <<>>]

\* api.Sans
NoSans == [DNSNames |-> <<>>, IPs |-> <<>>]

\* conf.Packages of the template
TemplatePackages ==
    [k \in PackageKeys |->
        IF k = "master"
        THEN PkgPackages(<<"kubernetes-client", "kubernetes-master", "kubernetes-kubeadm",
                           "coredns">>)
                 \o <<Pkg("tar", "repo", ""), Pkg("addons", "binary", "/etc/kubernetes")>>
        ELSE IF k = "node"
        THEN PkgPackages(<<"conntrack-tools", "socat", "containernetworking-plugins">>)
                 \o <<Pkg("tar", "repo", "")>>
                 \o PkgPackages(<<"emacs-filesystem", "gflags", "gpm-libs", "http-parser",
                                  "libwebsockets", "re2", "rsync", "vim-filesystem",
                                  "vim-common", "vim-enhanced", "yajl", "zlib-devel",
                                  "protobuf", "protobuf-devel", "grpc", "lxc", "lxc-libs",
                                  "lcr", "clibcni", "libcgroup", "docker-engine", "iSulad",
                                  "kubernetes-client", "kubernetes-node",
                                  "kubernetes-kubelet">>)
        ELSE IF k = "etcd"
        THEN <<Pkg("etcd", "pkg", ""), Pkg("tar", "repo", "")>>
        ELSE PkgPackages(<<"nginx", "gd", "gperftools-libs", "libunwind", "libwebp",
                           "libxslt", "nginx-all-modules", "nginx-filesystem",
                           "nginx-mod-http-image-filter", "nginx-mod-http-perl",
                           "nginx-mod-http-xslt-filter", "nginx-mod-mail",
                           "nginx-mod-stream">>)
                 \o <<Pkg("tar", "repo", "")>>]

getHostconfigs(prefix, ips) ==
    [i \in 1..Len(ips) |->
        [Name |-> HostName(prefix, i - 1), Ip |-> ips[i], Port |-> 22, Arch |-> "amd64"]]

\* The address list of one role: the option when given, else the default.
TemplateIPs(opt, default) == IF opt.set THEN opt.ips ELSE default

TemplateLbs(o) ==
    getHostconfigs("k8s-loadbalance-", TemplateIPs(o.loadbalancer, <<"192.168.0.1">>))

\* The deployConfig that createDeployConfigTemplate builds, when lbs[0] exists.
TemplateConfig(o) ==
    LET masterIP == TemplateIPs(o.masters, <<"192.168.0.2">>)
        nodesIP  == TemplateIPs(o.nodes, <<"192.168.0.3", "192.168.0.4">>)
        etcdsIP  == TemplateIPs(o.etcds, masterIP)
        masters  == getHostconfigs("k8s-master-", masterIP)
        etcds    == getHostconfigs("etcd-", etcdsIP)
        lbs      == TemplateLbs(o)
    IN  [ClusterID |-> "k8s-cluster",
         Masters |-> masters,
         Nodes |-> getHostconfigs("k8s-node-", nodesIP),
         Etcds |-> IF Len(etcds) = 0 THEN masters ELSE etcds,
         LoadBalances |-> lbs,
         ApiServerEndpoint |-> "https://" \o lbs[1].Ip \o ":6443",
         ApiServerCertSans |-> NoSans,
         Packages |-> TemplatePackages]

\* YAML scalars carry the type they resolve to.
YamlStr(s) == [tag |-> "str", value |-> s]
YamlInt(n) == [tag |-> "int", value |-> n]

MarshalHost(h) ==
    [name |-> YamlStr(h.Name), ip |-> YamlStr(h.Ip),
     port |-> YamlInt(h.Port), arch |-> YamlStr(h.Arch)]

MarshalHosts(hs) == [i \in 1..Len(hs) |-> MarshalHost(hs[i])]

MarshalStrs(l) == [i \in 1..Len(l) |-> YamlStr(l[i])]

MarshalPackages(ps) ==
    [i \in 1..Len(ps) |->
        [name |-> YamlStr(ps[i].Name), type |-> YamlStr(ps[i].Type),
         dstpath |-> YamlStr(ps[i].Dst)]]

\* yaml.Marshal(conf): one key per yaml tag of deployConfig.
Marshal(conf) ==
    [exists |-> TRUE,
     clusterid |-> YamlStr(conf.ClusterID),
     masters |-> MarshalHosts(conf.Masters),
     nodes |-> MarshalHosts(conf.Nodes),
     etcds |-> MarshalHosts(conf.Etcds),
     loadbalances |-> MarshalHosts(conf.LoadBalances),
     apiserverendpoint |-> YamlStr(conf.ApiServerEndpoint),
     apiservercertsans |-> [dnsnames |-> MarshalStrs(conf.ApiServerCertSans.DNSNames),
                           ips |-> MarshalStrs(conf.ApiServerCertSans.IPs)],
     pacakges |-> [k \in PackageKeys |-> MarshalPackages(conf.Packages[k])]]

NoFile == [exists |-> FALSE]

\* A host node decodes when each scalar has the type of its field.
HostDecodes(n) ==
    /\ n.name.tag = "str"
    /\ n.ip.tag = "str"
    /\ n.port.tag = "int"
    /\ n.arch.tag = "str"

UnmarshalHost(n) ==
    [Name |-> n.name.value, Ip |-> n.ip.value, Port |-> n.port.value, Arch |-> n.arch.value]

UnmarshalHosts(ns) == [i \in 1..Len(ns) |-> UnmarshalHost(ns[i])]

StrsDecode(l) == \A i \in 1..Len(l) : l[i].tag = "str"

UnmarshalStrs(l) == [i \in 1..Len(l) |-> l[i].value]

PackagesDecode(ps) ==
    \A i \in 1..Len(ps) :
        ps[i].name.tag = "str" /\ ps[i].type.tag = "str" /\ ps[i].dstpath.tag = "str"

UnmarshalPackages(ps) ==
    [i \in 1..Len(ps) |-> Pkg(ps[i].name.value, ps[i].type.value, ps[i].dstpath.value)]

Decodes(doc) ==
    /\ doc.clusterid.tag = "str"
    /\ doc.apiserverendpoint.tag = "str"
    /\ \A ns \in {doc.masters, doc.nodes, doc.etcds, doc.loadbalances} :
           \A i \in 1..Len(ns) : HostDecodes(ns[i])
    /\ StrsDecode(doc.apiservercertsans.dnsnames)
    /\ StrsDecode(doc.apiservercertsans.ips)
    /\ \A k \in PackageKeys : PackagesDecode(doc.pacakges[k])

\* yaml.Unmarshal(yamlStr, conf)
Unmarshal(doc) ==
    [ClusterID |-> doc.clusterid.value,
     Masters |-> UnmarshalHosts(doc.masters),
     Nodes |-> UnmarshalHosts(doc.nodes),
     Etcds |-> UnmarshalHosts(doc.etcds),
     LoadBalances |-> UnmarshalHosts(doc.loadbalances),
     ApiServerEndpoint |-> doc.apiserverendpoint.value,
     ApiServerCertSans |-> [DNSNames |-> UnmarshalStrs(doc.apiservercertsans.dnsnames),
                            IPs |-> UnmarshalStrs(doc.apiservercertsans.ips)],
     Packages |-> [k \in PackageKeys |-> UnmarshalPackages(doc.pacakges[k])]]

NoConf ==
    [ClusterID |-> "", Masters |-> <<>>, Nodes |-> <<>>, Etcds |-> <<>>,
     LoadBalances |-> <<>>, ApiServerEndpoint |-> "",
     ApiServerCertSans |-> NoSans, Packages |-> NoPackages]

createCommonHostConfig(u, defaultName) ==
    [Arch |-> IF u.Arch # "" THEN u.Arch ELSE "amd64",
     Name |-> IF u.Name # "" THEN u.Name ELSE defaultName,
     Address |-> u.Ip,
     Port |-> IF u.Port # 0 THEN u.Port ELSE 22,
     Type |-> {},
     OpenPorts |-> <<>>,
     Packages |-> <<>>]

portExist(openPorts, port) ==
    \E i \in 1..Len(openPorts) :
        openPorts[i].Protocol = port.Protocol /\ openPorts[i].Port = port.Port

\* addPackagesAndExports, the loop over the ports: a port is appended unless
\* the list built so far holds it.
RECURSIVE AddPorts(_, _, _)
AddPorts(have, openPorts, i) ==
    IF i > Len(openPorts) THEN have
    ELSE AddPorts(IF portExist(have, openPorts[i]) THEN have
                  ELSE Append(have, openPorts[i]),
                  openPorts, i + 1)

PackageNames(pkgs) == {pkgs[i].Name : i \in 1..Len(pkgs)}

\* noDupPkgs is filled from the packages the host holds on entry and is not
\* added to while pkgs is walked.
addPackagesAndExports(h, pkgs, openPorts) ==
    LET noDupPkgs == PackageNames(h.Packages)
    IN  [h EXCEPT !.OpenPorts = AddPorts(@, openPorts, 1),
                  !.Packages = @ \o SelectSeq(pkgs, LAMBDA p : p.Name \notin noDupPkgs)]

\* noDupPkgs[name] of addUserPackages: the last index at which the host held
\* a package of that name on entry.
LastIndex(pkgs, name) ==
    CHOOSE i \in 1..Len(pkgs) :
        /\ pkgs[i].Name = name
        /\ \A j \in (i + 1)..Len(pkgs) : pkgs[j].Name # name

\* addUserPackages, the loop over the user's packages: one whose name the
\* host held on entry takes that place, any other is appended.
RECURSIVE AddUser(_, _, _, _)
AddUser(have, onEntry, userPkgs, k) ==
    IF k > Len(userPkgs) THEN have
    ELSE LET p == Pkg(userPkgs[k].Name, userPkgs[k].Type, userPkgs[k].Dst)
         IN  IF p.Name \in PackageNames(onEntry)
             THEN AddUser([have EXCEPT ![LastIndex(onEntry, p.Name)] = p],
                          onEntry, userPkgs, k + 1)
             ELSE AddUser(Append(have, p), onEntry, userPkgs, k + 1)

addUserPackages(h, userPkgs) ==
    [h EXCEPT !.Packages = AddUser(@, @, userPkgs, 1)]

\* Endpoints of the model that name the kubelet port.
KubeletEndpoints == {"https://192.168.0.1:10250"}

\* getPortFromEndPoint: the number after the last colon of the URL's host, and
\* 6443 when the host has none; every other endpoint of the model either names
\* 6443 or names no port.
getPortFromEndPoint(endpoint) ==
    IF endpoint \in KubeletEndpoints THEN 10250 ELSE 6443

\* The key of conf.Packages, the default packages and the ports that
\* fillHostConfig uses in the loop of each role.
RoleKey(role) ==
    IF role = "Master" THEN "master"
    ELSE IF role = "Worker" THEN "node"
    ELSE IF role = "ETCD" THEN "etcd"
    ELSE "loadbalance"

DefaultPackages(role) ==
    IF role = "Master" THEN masterPackages
    ELSE IF role = "Worker" THEN nodePackages
    ELSE IF role = "ETCD" THEN etcdPackages
    ELSE loadbalancePackages

DefaultExports(conf, role) ==
    IF role = "Master" THEN masterExports
    ELSE IF role = "Worker" THEN nodeExports
    ELSE IF role = "ETCD" THEN etcdExports
    ELSE <<[Port |-> getPortFromEndPoint(conf.ApiServerEndpoint), Protocol |-> "tcp"]>>

\* cache[h.Address] = h
CachePut(cache, h) ==
    [ip \in DOMAIN cache \cup {h.Address} |-> IF ip = h.Address THEN h ELSE cache[ip]]

RECURSIVE FillRoleFresh(_, _, _, _, _, _, _)
\* A loop that builds a fresh entry for every host and never looks in the cache.
FillRoleFresh(conf, cache, hosts, i, prefix, role, reuse) ==
    IF i > Len(hosts) THEN cache
    ELSE LET base == createCommonHostConfig(hosts[i], HostName(prefix, i - 1))
             h1   == [base EXCEPT !.Type = @ \cup {role}]
             h2   == addUserPackages(h1, conf.Packages[RoleKey(role)])
             h    == addPackagesAndExports(h2, DefaultPackages(role),
                                           DefaultExports(conf, role))
         IN  FillRoleFresh(conf, CachePut(cache, h), hosts, i + 1, prefix, role, reuse)

\* One loop of fillHostConfig: masters always get a fresh entry, the other
\* roles add their bit to the entry cached under the same address.
RECURSIVE FillRole(_, _, _, _, _, _, _)
FillRole(conf, cache, hosts, i, prefix, role, reuse) ==
    IF i > Len(hosts) THEN cache
    ELSE LET u    == hosts[i]
             base == IF reuse /\ u.Ip \in DOMAIN cache
                     THEN cache[u.Ip]
                     ELSE createCommonHostConfig(u, HostName(prefix, i - 1))
             h1   == [base EXCEPT !.Type = @ \cup {role}]
             h2   == addUserPackages(h1, conf.Packages[RoleKey(role)])
             h    == addPackagesAndExports(h2, DefaultPackages(role),
                                           DefaultExports(conf, role))
         IN  FillRole(conf, CachePut(cache, h), hosts, i + 1, prefix, role, reuse)

\* ccfg.Nodes, in the unspecified order of the map: a set.
fillHostConfig(conf) ==
    LET c1 == FillRole(conf, <<>>, conf.Masters, 1, "k8s-master-", "Master", FALSE)
        c2 == FillRole(conf, c1, conf.Nodes, 1, "k8s-node-", "Worker", TRUE)
        et == IF Len(conf.Etcds) = 0 THEN conf.Masters ELSE conf.Etcds
        c3 == FillRole(conf, c2, et, 1, "etcd-", "ETCD", TRUE)
        c4 == FillRole(conf, c3, conf.LoadBalances, 1, "k8s-loadbalance-", "LoadBalance",
                       TRUE)
    IN  {c4[ip] : ip \in DOMAIN c4}

setIfStrConfigNotEmpty(config, userConfig) ==
    IF userConfig = "" THEN config ELSE userConfig

notInStrArray(arr, val) == \A i \in 1..Len(arr) : arr[i] # val

\* setStrArray, the loop: the values of userConfig that the slice does not
\* hold are appended to it.
RECURSIVE AppendNewStrs(_, _, _)
AppendNewStrs(config, userConfig, i) ==
    IF i > Len(userConfig) THEN config
    ELSE AppendNewStrs(IF notInStrArray(config, userConfig[i])
                       THEN Append(config, userConfig[i]) ELSE config,
                       userConfig, i + 1)

\* setStrArray as its caller sees it: config is a slice passed by value, the
\* appends grow the callee's copy of the slice header, and the caller's slice
\* keeps its length and its elements.
setStrArray(config, userConfig) ==
    SubSeq(AppendNewStrs(config, userConfig, 1), 1, Len(config))

toClusterdeploymentConfig(conf) ==
    LET nodes == fillHostConfig(conf)
    IN  [exists |-> TRUE,
         Name |-> setIfStrConfigNotEmpty("k8s-cluster", conf.ClusterID),
         Nodes |-> nodes,
         Endpoint |-> setIfStrConfigNotEmpty("", conf.ApiServerEndpoint),
         CertSans |-> [DNSNames |-> setStrArray(NoSans.DNSNames,
                                                conf.ApiServerCertSans.DNSNames),
                       IPs |-> setStrArray(NoSans.IPs, conf.ApiServerCertSans.IPs)],
         EtcdNodes |-> {n \in nodes : "ETCD" \in n.Type}]

NoCcfg == [exists |-> FALSE]

\* eggo template: builds the config and writes it; indexing lbs[0] of an empty
\* list stops the process.
CreateDeployConfigTemplate ==
    /\ cmd.pc = "start"
    /\ cmd' = IF Len(TemplateLbs(cmd.opts)) = 0
              THEN [cmd EXCEPT !.pc = "panicked", !.err = "index out of range"]
              ELSE [cmd EXCEPT !.pc = "written",
                               !.file = Marshal(TemplateConfig(cmd.opts))]
    /\ UNCHANGED <<cluster, mb, cm, job, djob, secret, pvc, alloc, faults, last>>

LoadDeployConfig ==
    /\ cmd.pc = "written"
    /\ cmd' = IF ~cmd.file.exists THEN [cmd EXCEPT !.pc = "failed", !.err = "no such file"]
              ELSE IF ~Decodes(cmd.file)
                   THEN [cmd EXCEPT !.pc = "failed", !.err = "cannot unmarshal"]
                   ELSE [cmd EXCEPT !.pc = "loaded", !.conf = Unmarshal(cmd.file)]
    /\ UNCHANGED <<cluster, mb, cm, job, djob, secret, pvc, alloc, faults, last>>

ToClusterdeploymentConfig ==
    /\ cmd.pc = "loaded"
    /\ cmd' = [cmd EXCEPT !.pc = "converted", !.ccfg = toClusterdeploymentConfig(cmd.conf)]
    /\ UNCHANGED <<cluster, mb, cm, job, djob, secret, pvc, alloc, faults, last>>

\* The command line run once for every choice of the four list options.
InitTemplate ==
    /\ InitStore({}, 0)
    /\ cmd \in {[pc |-> "start", opts |-> o, file |-> NoFile, conf |-> NoConf,
                 ccfg |-> NoCcfg, err |-> NoErr] : o \in Options}

NextTemplate ==
    \/ CreateDeployConfigTemplate
    \/ LoadDeployConfig
    \/ ToClusterdeploymentConfig

SpecTemplate == InitTemplate /\ [][NextTemplate]_vars

(* C20: for every choice of the template's list options, the template is
   written without stopping the process, the file is loaded without error into
   a deploy config with the hosts the template built, and the conversion
   yields a cluster config. *)
C20_TemplateRoundTrips ==
    /\ cmd.pc \notin {"panicked", "failed"}
    /\ cmd.pc \in {"loaded", "converted"} =>
           LET t == TemplateConfig(cmd.opts)
           IN  /\ cmd.conf.Masters = t.Masters
               /\ cmd.conf.Nodes = t.Nodes
               /\ cmd.conf.Etcds = t.Etcds
               /\ cmd.conf.LoadBalances = t.LoadBalances
    /\ cmd.pc = "converted" => cmd.ccfg.exists

(* ------------------------------------------------------------------------ *)

\* The references of a status are set in the order of the creation steps.
InDependencyOrder(status) ==
    /\ status.JobRef # Nil => status.ConfigRef # Nil
    /\ status.ConfigRef # Nil => status.PackagePersistentVolumeClaimRef # Nil
    /\ status.PackagePersistentVolumeClaimRef # Nil => status.MachineLoginSecretRef # Nil
    /\ status.MachineLoginSecretRef # Nil => status.MachineBindingRef # Nil

AllRefsSet(status) == \A f \in RefFields : status[f] # Nil

(* C21: in every state, the persisted status of a cluster that is not being
   deleted has its references set in dependency order (job, config, volume
   claim, login secret, machine binding: each set only if the next is), and
   HasCluster only with all five set. *)
C21_RefsInDependencyOrder ==
    \A c \in Clusters :
        (cluster[c].exists /\ ~cluster[c].deleting) =>
            /\ InDependencyOrder(cluster[c].status)
            /\ cluster[c].status.HasCluster => AllRefsSet(cluster[c].status)

\* C21 witness: a created cluster that is not being deleted.
C21_CreatedWithAllRefs ==
    \E c \in Clusters :
        /\ cluster[c].exists
        /\ ~cluster[c].deleting
        /\ cluster[c].status.HasCluster
        /\ AllRefsSet(cluster[c].status)

\* The store calls of the deletion pipeline that change a resource the cluster
\* owns: its deploy job, its cleanup job, its machine binding, its configmap.
OwnedMutations ==
    {"delete-job", "delete-job-grace", "delete-djob", "create-djob", "delete-mb",
     "delete-cm"}

(* C22: every invocation of the deletion pipeline issues at most one store
   call that creates or deletes a resource the cluster owns. *)
C22_OneMutationPerDeletePass ==
    last.step = "delete" => Cardinality(last.calls \cap OwnedMutations) <= 1

(* C23: an invocation of the deletion pipeline clears the persisted reference
   to the machine binding, or to the configmap, only if the store did not hold
   that resource when the invocation fetched it. *)
C23_RefClearedOnlyWhenAbsent ==
    [][\A c \in Clusters :
          (last'.step = "delete" /\ last'.c = c) =>
              /\ (cluster[c].status.MachineBindingRef # Nil
                    /\ cluster'[c].status.MachineBindingRef = Nil) => ~mb[c].exists
              /\ (cluster[c].status.ConfigRef # Nil
                    /\ cluster'[c].status.ConfigRef = Nil) => ~cm[c]]_vars

(* C24: in every state, a Cluster record whose status says Deleted has all
   five references nil: machine binding, login secret, volume claim, config
   and job. *)
C24_DeletedHasNoRefs ==
    \A c \in Clusters :
        (cluster[c].exists /\ cluster[c].status.Deleted) =>
            \A f \in RefFields : cluster[c].status[f] = Nil

\* The store calls an invocation can issue: each names the Cluster record, the
\* machine binding, the configmap, the deploy job or the cleanup job.
CallsOnOwned ==
    OwnedMutations \cup Reads
    \cup {"list-mb", "create-mb", "update-mb", "create-cm", "create-job",
          "update-status", "update-cluster"}

(* C25: no Reconcile invocation, on the creation path or in the deletion
   pipeline, changes the login secret or the volume claim in the store, and
   none of the store calls it issues writes one. *)
C25_SecretAndPVCOnlyRead ==
    [][last'.step # "env" =>
          /\ secret' = secret
          /\ pvc' = pvc
          /\ last'.calls \subseteq CallsOnOwned]_vars

\* C25 witness: the deletion pipeline has run to its last step for a cluster
\* whose secret and volume claim were read on the creation path, and both are
\* still in the store.
C25_TornDownWithSecretAndPVC ==
    \E c \in Clusters :
        /\ last.c = c
        /\ last.step = "delete"
        /\ "update-status" \in last.calls
        /\ cluster[c].status.Deleted
        /\ cluster[c].status.MachineLoginSecretRef # Nil
        /\ secret[c].exists
        /\ pvc[c] = "Bound"

\* The cleanup job of c is in the store with a Complete condition.
CleanupComplete(c) ==
    /\ djob[c].exists
    /\ TrueConditions(djob[c], JobComplete) # {}
    /\ TrueConditions(djob[c], JobFailed) = {}

(* C26: for a cluster being deleted, an invocation turns HasCluster from true
   to false, in memory or in the store, only if the cleanup job was in the
   store with a Complete condition; and an invocation that finds the cleanup
   job unfinished or Failed leaves HasCluster true and deletes neither the
   machine binding nor the configmap. *)
C26_HasClusterFalseOnlyAfterCleanup ==
    [][\A c \in Clusters :
          (last'.step = "delete" /\ last'.c = c /\ cluster[c].status.HasCluster) =>
              /\ (~last'.mem.HasCluster \/ ~cluster'[c].status.HasCluster)
                    => CleanupComplete(c)
              /\ (djob[c].exists /\ ~CleanupComplete(c)) =>
                    /\ last'.mem.HasCluster
                    /\ cluster'[c].status.HasCluster
                    /\ mb'[c] = mb[c]
                    /\ cm'[c] = cm[c]
                    /\ last'.calls \cap {"delete-mb", "delete-cm"} = {}]_vars

\* C26 witness: an invocation found the cleanup job Complete, deleted it and
\* turned HasCluster to false.
C26_CleanupObservedComplete ==
    \E c \in Clusters :
        /\ last.c = c
        /\ last.step = "delete"
        /\ "delete-djob" \in last.calls
        /\ ~djob[c].exists
        /\ ~last.mem.HasCluster
        /\ LastHistoryIs(last.mem, "success")

\* A cleanup job of c is in the store and has not finished.
CleanupLive(c) == djob[c].exists /\ ~JobIsFinished(djob[c]).finish

\* The invocation deleted the machine binding of c only with HasCluster false.
BindingDeletedAfterCleanup(c) ==
    (mb[c].exists /\ ~mb'[c].exists) => ~last'.mem.HasCluster

\* The invocation deleted the configmap of c only with the machine binding gone.
ConfigDeletedAfterBinding(c) ==
    (cm[c] /\ ~cm'[c]) => ~mb[c].exists

(* C27: teardown runs in reverse dependency order: an invocation deletes the
   machine binding only with HasCluster false, it deletes the configmap only
   when the machine binding is gone from the store, and in every state a
   cleanup job that has not finished has its configmap in the store. *)
C27_ReverseDependencyTeardown ==
    /\ [](\A c \in Clusters : CleanupLive(c) => cm[c])
    /\ [][\A c \in Clusters :
             (last'.step = "delete" /\ last'.c = c) =>
                 /\ BindingDeletedAfterCleanup(c)
                 /\ ConfigDeletedAfterBinding(c)]_vars

\* The deploy job of c is in the store with a Complete condition.
DeployComplete(c) ==
    /\ job[c].exists
    /\ TrueConditions(job[c], JobComplete) # {}
    /\ TrueConditions(job[c], JobFailed) = {}

\* Every machine of the binding carries the condition "success" for its usage.
AllMachinesSucceeded(b) ==
    /\ b.exists
    /\ \A u \in b.Usages :
           [uid |-> u.uid, usage |-> u.usage, message |-> "success"] \in b.Conditions

(* C28: the stored HasCluster turns true only in a Reconcile invocation of the
   monitor step that found the deploy job Complete and whose update of the
   machine binding succeeded, leaving every machine with the condition
   "success"; and in every state a cluster with HasCluster true has no deploy
   job in the store that is unfinished or Failed. *)
C28_HasClusterOnlyAfterSuccess ==
    /\ [](\A c \in Clusters :
             (cluster[c].exists /\ cluster[c].status.HasCluster /\ job[c].exists)
                 => DeployComplete(c))
    /\ [][\A c \in Clusters :
             (~cluster[c].status.HasCluster /\ cluster'[c].status.HasCluster) =>
                 /\ last'.c = c
                 /\ last'.step = "monitor"
                 /\ DeployComplete(c)
                 /\ "update-mb" \in last'.calls
                 /\ AllMachinesSucceeded(mb'[c])]_vars

\* C28 witness: the monitor step has just stored HasCluster true for a cluster
\* with three bound machines.
C28_ClusterJustCreated ==
    \E c \in Clusters :
        /\ last.c = c
        /\ last.step = "monitor"
        /\ cluster[c].status.HasCluster
        /\ DeployComplete(c)
        /\ Cardinality(mb[c].Usages) = 3
        /\ AllMachinesSucceeded(mb[c])

\* The errors of a creation step that lacks a resource.
ShortageErrors == {NotEnough, NotFound, InvalidSecret, InvalidSecretType, NotBound}

\* The machines of the pool of cluster c that no Binding Record of the store binds.
FreeMachines(c) ==
    {m \in LabelSelectMachines(cluster[c].spec.Namespace, cluster[c].spec.MasterRequire) :
        m.uid \notin BoundInStore}

\* The resource that the step of the last invocation waits for is there.
Available(c, step) ==
    \/ step = "allocate" /\ Cardinality(FreeMachines(c)) >= Taken(Required(c), 5)
    \/ step = "secret" /\ ValidSecret(secret[c])
    \/ step = "pvc" /\ pvc[c] = "Bound"

\* The step of the invocation went through: the binding is selected, or the
\* reference of the step is stored.
StepDone(c, step) ==
    \/ step = "allocate" /\ alloc'[c].exists
    \/ step = "secret" /\ cluster'[c].status.MachineLoginSecretRef # Nil
    \/ step = "pvc" /\ cluster'[c].status.PackagePersistentVolumeClaimRef # Nil

(* C29: an invocation whose creation step returns an error for lack of a
   resource (too few machines, login secret missing or malformed, volume claim
   not bound) leaves the stored status of the cluster as it was; and an
   invocation that runs the step when the resource is there returns no such
   error and completes the step. *)
C29_ShortageLeavesStatusAndHeals ==
    [][\A c \in Clusters :
          (last'.c = c /\ last'.step \in {"allocate", "secret", "pvc"}) =>
              /\ last'.err \in ShortageErrors => cluster'[c].status = cluster[c].status
              /\ Available(c, last'.step) =>
                    /\ last'.err \notin ShortageErrors
                    /\ StepDone(c, last'.step)]_vars

\* The machines a binding holds under one usage.
UIDsOf(b, usage) == {u.uid : u \in UsageEntries(b, usage)}

(* C30: the binding that one allocation call selects holds no machine under
   two roles: the machines of master, worker, etcd and loadbalance are
   pairwise disjoint, and together they are as many as the roles require. *)
C30_RolesAreDisjoint ==
    [][\A c \in Clusters :
          (last'.c = c /\ last'.step = "allocate" /\ alloc'[c].exists) =>
              /\ \A r1, r2 \in Usages :
                     r1 # r2 => UIDsOf(alloc'[c], r1) \cap UIDsOf(alloc'[c], r2) = {}
              /\ Cardinality(BoundUIDs(alloc'[c])) = Taken(Required(c), 5)]_vars

\* C30 witness: one allocation call selected machines for two roles.
C30_TwoRolesSelected ==
    \E c \in Clusters :
        /\ last.c = c
        /\ last.step = "allocate"
        /\ alloc[c].exists
        /\ UIDsOf(alloc[c], UsageMaster) # {}
        /\ Cardinality(UIDsOf(alloc[c], UsageWorker)) = 2

(* C31: every machine that an allocation call selects for a role carries the
   features that the requirement of that role names: the worker, etcd and
   loadbalance machines those of their own requirement, not the master's. *)
C31_SelectedMatchOwnSelector ==
    [][\A c \in Clusters :
          (last'.c = c /\ last'.step = "allocate" /\ alloc'[c].exists) =>
              \A u \in alloc'[c].Usages :
                  \A m \in Machines :
                      (m.uid = u.uid) =>
                          RequireOf(cluster[c].spec, u.usage).Features \subseteq m.labels]_vars

\* The invocation created a machine binding, a configmap or a job for c.
CreatesOwned(c) ==
    \/ ~mb[c].exists /\ mb'[c].exists
    \/ ~cm[c] /\ cm'[c]
    \/ ~job[c].exists /\ job'[c].exists
    \/ ~djob[c].exists /\ djob'[c].exists

(* C32: the Reconcile invocation that registers the finalizer issues the
   update of the record and nothing else, leaving the status and every owned
   resource as they were; and no invocation creates a machine binding, a
   configmap or a job for a cluster whose record does not carry the
   finalizer. *)
C32_FinalizerFirst ==
    [][\A c \in Clusters :
          /\ (last'.c = c /\ last'.step = "add-finalizer") =>
                /\ last'.calls = {"update-cluster"}
                /\ cluster'[c].status = cluster[c].status
                /\ UNCHANGED <<mb, cm, job, djob, alloc, secret, pvc>>
          /\ CreatesOwned(c) => cluster[c].finalizer]_vars

\* C32 witness: the finalizer was registered, and later an invocation created
\* the machine binding of the cluster.
C32_BindingCreatedUnderFinalizer ==
    \E c \in Clusters :
        /\ last.c = c
        /\ last.step = "create-binding"
        /\ "create-mb" \in last.calls
        /\ mb[c].exists
        /\ cluster[c].finalizer

\* The status of c refers to a deploy job that the store does not hold.
JobRefDangles(c) ==
    /\ cluster[c].exists
    /\ ~cluster[c].deleting
    /\ cluster[c].status.JobRef # Nil
    /\ ~job[c].exists

(* C33: a cluster whose JobRef names a deploy job that is gone from the store
   does not stay there: unless it is deleted, a deploy job is in the store
   again later. *)
C33_LostJobIsRecreated ==
    \A c \in Clusters :
        JobRefDangles(c) ~> (job[c].exists \/ cluster[c].deleting \/ ~cluster[c].exists)

\* The store holds a resource that cluster c owns.
OwnedRemains(c) == mb[c].exists \/ cm[c] \/ job[c].exists \/ djob[c].exists

(* C34: when an invocation releases the finalizer of a cluster, the store
   holds no machine binding, configmap, deploy job or cleanup job of that
   cluster any more. *)
C34_NothingOwnedAtRelease ==
    [][\A c \in Clusters :
          (cluster[c].finalizer /\ ~cluster'[c].finalizer) => ~OwnedRemains(c)']_vars

(* C35: a Reconcile invocation that returns an error leaves the Cluster record
   in the store as it was before the invocation: status and finalizers. *)
C35_ErrorPersistsNothing ==
    [][\A c \in Clusters :
          (last'.c = c /\ last'.step # "env" /\ last'.err # NoErr) =>
              cluster'[c] = cluster[c]]_vars

\* Two clusters over one machine pool, followed through allocation on a store
\* that may fail a call.
InitLookup == InitWith({"b", "c"}, MaxFaults)

SpecLookup == InitLookup /\ [][NextAlloc]_vars

(* C36: filterMachines selects no candidate whose lookup of Binding Records
   failed with a store error: in every state where a cluster is to be
   allocated, whatever the listing and whichever lookup the store fails, a
   selection that succeeds holds no machine under the usage for which its
   lookup failed. *)
C36_FailedLookupNotSelected ==
    \A c \in Clusters :
        (Creating(c) /\ NeedsAllocation(cluster[c].status, mb[c].exists)) =>
            \A listing \in Listings(c), order \in Orderings(LiveBindings(mb)) :
                \A lost \in LookupFaults(cluster[c].spec, Range(listing)) :
                    LET r == PrepareMachineBinding(cluster[c].spec, listing, mb, order, lost)
                    IN  r.err = NoErr => lost \cap r.mb.Usages = {}

(* ------------------- deploy configs written by the user ----------------- *)

\* Hosts as a user lists them: the address alone, the rest left to the defaults.
UserHosts(ips) ==
    [i \in 1..Len(ips) |-> [Name |-> "", Ip |-> ips[i], Port |-> 0, Arch |-> ""]]

UserConfig(m, n, e, l, endpoint, sans, pkgs) ==
    [ClusterID |-> "", Masters |-> UserHosts(m), Nodes |-> UserHosts(n),
     Etcds |-> UserHosts(e), LoadBalances |-> UserHosts(l),
     ApiServerEndpoint |-> endpoint, ApiServerCertSans |-> sans, Packages |-> pkgs]

\* The command line after it loaded a deploy config from a file of the user.
Loaded(conf) ==
    [pc |-> "loaded",
     opts |-> [masters |-> NilList, nodes |-> NilList, etcds |-> NilList,
               loadbalancer |-> NilList],
     file |-> NoFile, conf |-> conf, ccfg |-> NoCcfg, err |-> NoErr]

\* Every choice of the four host lists, with no package and no SAN of the user.
InitHosts ==
    /\ InitStore({}, 0)
    /\ cmd \in {Loaded(UserConfig(m, n, e, l, "", NoSans, NoPackages)) :
                    m \in IPLists, n \in IPLists, e \in IPLists, l \in IPLists}

NextConvert == ToClusterdeploymentConfig

SpecHosts == InitHosts /\ [][NextConvert]_vars

AddressesOf(hosts) == {hosts[i].Ip : i \in 1..Len(hosts)}

\* The hosts that take the etcd role: the masters when no etcd is listed.
EtcdsOf(conf) == IF Len(conf.Etcds) = 0 THEN conf.Masters ELSE conf.Etcds

\* The roles of the lists in which an address appears.
RolesOf(conf, ip) ==
    {r \in {"Master", "Worker", "ETCD", "LoadBalance"} :
        ip \in AddressesOf(IF r = "Master" THEN conf.Masters
                           ELSE IF r = "Worker" THEN conf.Nodes
                           ELSE IF r = "ETCD" THEN EtcdsOf(conf)
                           ELSE conf.LoadBalances)}

AllAddresses(conf) ==
    AddressesOf(conf.Masters) \cup AddressesOf(conf.Nodes)
        \cup AddressesOf(EtcdsOf(conf)) \cup AddressesOf(conf.LoadBalances)

(* C37: after the conversion the cluster config holds exactly one host entry
   for each distinct address among the masters, nodes, etcds (the masters when
   none is listed) and load balancers, and the Type of the entry holds the
   role of every list the address appears in, and no other. *)
C37_OneHostPerAddress ==
    cmd.pc = "converted" =>
        /\ {n.Address : n \in cmd.ccfg.Nodes} = AllAddresses(cmd.conf)
        /\ Cardinality(cmd.ccfg.Nodes) = Cardinality(AllAddresses(cmd.conf))
        /\ \A n \in cmd.ccfg.Nodes : n.Type = RolesOf(cmd.conf, n.Address)

\* C37 happens: two hosts were built, one of them listed under every role, the
\* etcd role by default of the masters, and listed twice as a node.
C37_HostOfEveryRole ==
    /\ cmd.pc = "converted"
    /\ Len(cmd.conf.Etcds) = 0
    /\ Cardinality(cmd.ccfg.Nodes) = 2
    /\ \E n \in cmd.ccfg.Nodes :
           /\ n.Type = {"Master", "Worker", "ETCD", "LoadBalance"}
           /\ cmd.conf.Nodes = UserHosts(<<n.Address, n.Address>>)

\* Longest package list the user gives for one role.
MaxPkgs == 2

\* Packages of the user: one that has the name of a default package of every
\* role, one that no role has by default.
UserPkgs == {Pkg("tar", "pkg", ""), Pkg("addons", "binary", "/etc/kubernetes")}

PkgLists == UNION {[1..n -> UserPkgs] : n \in 0..MaxPkgs}

\* Host lists of the package runs (masters, nodes, etcds, load balancers): one
\* host under every role, and three hosts of which one is master and node.
HostChoices ==
    {<<<<"192.168.0.1">>, <<"192.168.0.1">>, <<>>, <<"192.168.0.1">>>>,
     <<<<"192.168.0.1">>, <<"192.168.0.1", "192.168.0.2">>, <<"192.168.0.2">>,
       <<"192.168.0.3">>>>}

Endpoints == {"https://192.168.0.1:6443"} \cup KubeletEndpoints

\* Every choice of the user's package lists and of the endpoint.
InitPackages ==
    /\ InitStore({}, 0)
    /\ cmd \in {Loaded(UserConfig(h[1], h[2], h[3], h[4], ep, NoSans, pkgs)) :
                    h \in HostChoices, ep \in Endpoints, pkgs \in [PackageKeys -> PkgLists]}

SpecPackages == InitPackages /\ [][NextConvert]_vars

NoTwoAlike(seq, Alike(_, _)) ==
    \A i, j \in 1..Len(seq) : (i # j) => ~Alike(seq[i], seq[j])

SameName(p, q) == p.Name = q.Name

SamePort(p, q) == p.Port = q.Port /\ p.Protocol = q.Protocol

\* The packages the user gives for the roles of a host.
UserPackagesOf(conf, n) ==
    UNION {Range(conf.Packages[RoleKey(r)]) : r \in n.Type}

(* C38: after the conversion no host holds two packages of the same name or
   two open ports of the same port and protocol, whatever package lists the
   user gave, and a package that has the name of a package of the user is a
   package of the user. *)
C38_NoDuplicatePackagesOrPorts ==
    cmd.pc = "converted" =>
        \A n \in cmd.ccfg.Nodes :
            /\ NoTwoAlike(n.Packages, SameName)
            /\ NoTwoAlike(n.OpenPorts, SamePort)
            /\ \A i \in 1..Len(n.Packages) :
                   (n.Packages[i].Name \in {p.Name : p \in UserPackagesOf(cmd.conf, n)})
                       => n.Packages[i] \in UserPackagesOf(cmd.conf, n)

\* Longest list of DNS names, and of addresses, among the user's SANs.
MaxSans == 2

DNSNames == {"kubernetes.local", "api.example.com"}

SansLists(S) == UNION {[1..n -> S] : n \in 0..MaxSans}

\* Every choice of the user's SANs, for one host under every role and for
\* masters apart from nodes.
InitSans ==
    /\ InitStore({}, 0)
    /\ cmd \in {Loaded(UserConfig(h[1], h[2], h[3], h[4], "",
                                  [DNSNames |-> d, IPs |-> i], NoPackages)) :
                    h \in HostChoices, d \in SansLists(DNSNames), i \in SansLists(IPs)}

SpecSans == InitSans /\ [][NextConvert]_vars

\* A value is in a list exactly once.
Once(seq, v) == Cardinality({i \in 1..Len(seq) : seq[i] = v}) = 1

(* C39: after the conversion every DNS name and every address of the deploy
   config's apiserver-cert-sans is in the CertSans of the cluster config's API
   server, once. *)
C39_SansMerged ==
    cmd.pc = "converted" =>
        /\ \A d \in Range(cmd.conf.ApiServerCertSans.DNSNames) :
               Once(cmd.ccfg.CertSans.DNSNames, d)
        /\ \A i \in Range(cmd.conf.ApiServerCertSans.IPs) :
               Once(cmd.ccfg.CertSans.IPs, i)

(* --------------------------- bootstrap tokens --------------------------- *)

\* Longest lifetime, in hours, that a token config sets.
MaxTTL == 2

\* time.Hour counted in hours, and the lifetime of a token that sets none.
DefaultTTL == 24

\* bconf.TTL is a pointer: nil, or a duration.
NilTTL == [set |-> FALSE]
TTLs == {NilTTL} \cup {[set |-> TRUE, hours |-> h] : h \in 1..MaxTTL}

\* Longest list of usages, and of extra groups, of a token config.
MaxTokenList == 2

TokenUsages == {"signing", "authentication"}
TokenGroups == {"system:bootstrappers:kubeadm:default-node-token"}

BootstrapTokenConfigs ==
    [Description : {"bootstrap token"}, ID : {"abcdef"}, Secret : {"0123456789abcdef"},
     TTL : TTLs,
     Usages : UNION {[1..n -> TokenUsages] : n \in 0..MaxTokenList},
     AuthExtraGroups : UNION {[1..n -> TokenGroups] : n \in 0..MaxTokenList}]

\* strings.Join(l, ",")
RECURSIVE Join(_, _)
Join(l, i) ==
    IF i > Len(l) THEN ""
    ELSE IF i = Len(l) THEN l[i]
    ELSE l[i] \o "," \o Join(l, i + 1)

\* The hours at which time.Now() may answer.
Clock == {0, 1}

\* The datastore handed to the template; a key that is not set renders as
\* "<no value>".
TokenDatastore(bconf, now, ttl) ==
    [Description |-> bconf.Description,
     ID |-> bconf.ID,
     Secret |-> bconf.Secret,
     Expiration |-> [layout |-> "RFC3339", hours |-> now + ttl],
     Usages |-> [i \in 1..Len(bconf.Usages) |->
                    "usage-bootstrap-" \o bconf.Usages[i] \o ": true"],
     AuthExtraGroups |-> IF Len(bconf.AuthExtraGroups) > 0
                         THEN Join(bconf.AuthExtraGroups, 1) ELSE "<no value>"]

NoToken == [exists |-> FALSE]

\* CreateBootstrapToken: bconf.TTL is dereferenced before it is compared with
\* nil, and the dereference of a nil pointer stops the process; the command
\* that applies the rendered secret may fail.
CreateBootstrapToken ==
    /\ cmd.pc = "token"
    /\ IF ~cmd.bconf.TTL.set
       THEN cmd' = [cmd EXCEPT !.pc = "panicked", !.err = "nil pointer dereference"]
       ELSE \E now \in Clock, ran \in BOOLEAN :
                LET ttl == IF ~cmd.bconf.TTL.set THEN DefaultTTL ELSE cmd.bconf.TTL.hours
                    secret0 == [exists |-> TRUE] @@ TokenDatastore(cmd.bconf, now, ttl)
                IN  cmd' = IF ran
                           THEN [cmd EXCEPT !.pc = "applied", !.now = now,
                                            !.token = secret0]
                           ELSE [cmd EXCEPT !.pc = "failed", !.now = now,
                                            !.err = "create core config failed"]
    /\ UNCHANGED <<cluster, mb, cm, job, djob, secret, pvc, alloc, faults, last>>

\* CreateBootstrapToken called once for every token config.
InitToken ==
    /\ InitStore({}, 0)
    /\ cmd \in {[pc |-> "token", bconf |-> b, now |-> 0, token |-> NoToken, err |-> NoErr] :
                    b \in BootstrapTokenConfigs}

NextToken == CreateBootstrapToken

SpecToken == InitToken /\ [][NextToken]_vars

(* C40: CreateBootstrapToken called with a token config that sets no TTL does
   not stop the process, and the token it applies expires 24 hours after the
   call. *)
C40_NilTTLUsesDefault ==
    (cmd.pc # "token" /\ ~cmd.bconf.TTL.set) =>
        /\ cmd.pc # "panicked"
        /\ cmd.pc = "applied" => cmd.token.Expiration.hours = cmd.now + DefaultTTL

====
